---- MODULE Spec2Model ----
(***************************************************************************)
(* Verification model of the mensaviva spatial core: QuadTree, LRUCache,  *)
(* VirtualMarkerPool, ViewportOptimizer, MarkerManager and ClusterManager. *)
(* Each subsystem has its own variables, actions and specification; a     *)
(* specification leaves the other subsystems' variables at their initial  *)
(* values.                                                                 *)
(***************************************************************************)
EXTENDS Integers, Sequences, FiniteSets, TLC

VARIABLES
    qt,          \* QuadTree: path -> [points, divided]
    qtInserted,  \* history: points whose insert returned true since the last clear
    qtCalls,     \* history: number of insert calls made
    qtRet,       \* return value of the last QuadTree call
    lruCapacity,     \* LRUCache.capacity
    lruCache,        \* LRUCache.cache: key -> value
    lruAccessOrder,  \* LRUCache.accessOrder
    lruTouched,      \* history: every key ever stored-and-touched, oldest touch first
    lruScen,         \* history: how many steps of the example scenario have been followed
    lruRet,          \* return value of the last LRUCache call
    currentViewport,   \* ViewportOptimizer.currentViewport
    preloadViewport,   \* ViewportOptimizer.preloadViewport
    visibleMarkers,    \* ViewportOptimizer.visibleMarkers (ids)
    preloadedMarkers,  \* ViewportOptimizer.preloadedMarkers (ids)
    updateTimer,       \* ViewportOptimizer.updateTimer: handle of the last timer set, 0 for null
    lastUpdate,        \* ViewportOptimizer.lastUpdate
    vpMetrics,         \* ViewportOptimizer.metrics (the counts)
    vpTimers,          \* host timers that are set and have neither fired nor been cleared
    vpNow,             \* Date.now()
    vpTracked,         \* markers tracked by MarkerManager: id -> [marker, visible]
    vpRequests,        \* history: number of updateViewport calls made
    vpProcessed,       \* history: requests passed to processViewportUpdate, in order
    vpReplaced,        \* history: deferred requests whose timer was cleared
    vpSeen,            \* history: the candidates and rectangles of the last processed update
    vpRet,             \* history: what the last updateViewport call did
    clQuadtree,        \* ClusterManager.quadtree
    clusters,          \* ClusterManager.clusters
    previousClusters,  \* ClusterManager.previousClusters
    transitions,       \* ClusterManager.transitions
    clMetrics,         \* ClusterManager.metrics (points, clusters)
    clRet,             \* the last calculateClusters call: its arguments and result
    markerPool,        \* VirtualMarkerPool.markerPool: the ids of all markers created
    markerObjects,     \* the marker objects: id -> [state, element]
    recycledMarkers,   \* VirtualMarkerPool.recycledMarkers, in insertion order
    activeMarkers,     \* VirtualMarkerPool.activeMarkers: entity id -> marker id
    virtualMarkers,    \* VirtualMarkerPool.virtualMarkers, in insertion order
    pendingUpdates,    \* VirtualMarkerPool.pendingUpdates, in insertion order
    metrics,           \* VirtualMarkerPool.metrics: created (the other counters are only reported)
    rafQueue,          \* callbacks passed to requestAnimationFrame for the next frame
    rafRunning,        \* callbacks of the frame being run that have not run yet
    pendingData,       \* MarkerManager.pendingData (NoData for null)
    mmTimer,           \* MarkerManager.updateTimer is set and has not fired
    poolInitialized,   \* initialize() has been called
    poolCycles,        \* history: number of updateVirtualMarkers calls made
    poolGhost,         \* history: observations of the last step
    scm,               \* a SpatialCacheManager: config, dataCache, regionCache, quadtree, viewportFrequency
    scKeys,            \* history: the (bounds, zoom, key) of every generateRegionKey call
    scCalls,           \* history: number of calls made on the SpatialCacheManager
    scRet,             \* the last SpatialCacheManager call: its arguments and result
    scNow,             \* Date.now() as seen by the SpatialCacheManager
    scSeen,            \* history: (age, frequency, needsUpdate) of every cached region returned
    slOptions,         \* SmartCacheLayer.options (minZoom, maxZoom, zoomLevelGrouping)
    zoomLevelCaches,   \* SmartCacheLayer.zoomLevelCaches: band base -> SpatialCacheManager
    regionAccess,      \* SmartCacheLayer.regionAccess: region key -> access records
    slNow,             \* Date.now() as seen by the SmartCacheLayer
    slLog,             \* history: every access ever recorded, as (key, timestamp)
    slRet,             \* the last SmartCacheLayer call: its arguments and outcome
    offlineMode,       \* ErrorBoundaryService.offlineMode
    errorCounts,       \* ErrorBoundaryService.errorCounts: operation type -> failures
    fallbackStrategies,\* operation types with a registered fallback strategy
    ebCall,            \* the executeWithRetry call in progress, at its current await
    ebCalls,           \* number of executeWithRetry calls made
    ebRet,             \* history: how the last executeWithRetry call ended
    rqQueues,          \* RequestQueue.queues: priority -> queued item ids, in order
    rqItems,           \* the queue items ever created: id -> request, cancelled, promise
    rqRunning,         \* RequestQueue.running
    rqRunningCount,    \* RequestQueue.runningCount
    rqInFlight,        \* items whose processQueue call is at its await
    rqStarted,         \* history: item ids in the order they were started
    dbNow,             \* the clock of the debounced function's timers
    dbTimeout,         \* debounce: the timer held by the closure variable timeout
    dbPromises,        \* the promises returned by the debounced function, per call
    dbInvoked,         \* history: the invocations of func, with arguments and time
    dbRunning          \* calls whose timer callback is at its await of func

qtVars == <<qt, qtInserted, qtCalls, qtRet>>
lruVars == <<lruCapacity, lruCache, lruAccessOrder, lruTouched, lruScen, lruRet>>
vpVars == <<currentViewport, preloadViewport, visibleMarkers, preloadedMarkers,
            updateTimer, lastUpdate, vpMetrics, vpTimers, vpNow, vpTracked,
            vpRequests, vpProcessed, vpReplaced, vpSeen, vpRet>>
clVars == <<clQuadtree, clusters, previousClusters, transitions, clMetrics, clRet>>
poolVars == <<markerPool, markerObjects, recycledMarkers, activeMarkers, virtualMarkers,
              pendingUpdates, metrics, rafQueue, rafRunning, pendingData, mmTimer,
              poolInitialized, poolCycles, poolGhost>>

cacheVars == <<scm, scKeys, scCalls, scRet, scNow, scSeen, slOptions, zoomLevelCaches, regionAccess,
               slNow, slLog, slRet>>

ebVars == <<offlineMode, errorCounts, fallbackStrategies, ebCall, ebCalls, ebRet>>

rqVars == <<rqQueues, rqItems, rqRunning, rqRunningCount, rqInFlight, rqStarted>>

dbVars == <<dbNow, dbTimeout, dbPromises, dbInvoked, dbRunning>>

vars == <<qtVars, lruVars, vpVars, clVars, poolVars, cacheVars, ebVars, rqVars, dbVars>>

(***************************************************************************)
(* Generic helpers                                                         *)
(***************************************************************************)
Range(s) == {s[i] : i \in DOMAIN s}

Min(a, b) == IF a < b THEN a ELSE b
CeilDiv(a, b) == (a + b - 1) \div b

RECURSIVE SeqFilterCount(_, _)
\* number of elements of sequence s that are members of set S
SeqFilterCount(s, S) ==
    IF s = <<>> THEN 0
    ELSE (IF Head(s) \in S THEN 1 ELSE 0) + SeqFilterCount(Tail(s), S)

(***************************************************************************)
(* QuadTree (src/unnamed/part_008)                                         *)
(***************************************************************************)
QtMaxDepth == 2
QtCapacity == 1
QtMaxInserts == 3

\* side of the root square; a power of two, so that every halving is exact
QtSide == 2 ^ QtMaxDepth

QtRootBounds == [x |-> 0, y |-> 0, width |-> QtSide, height |-> QtSide]

\* coordinates offered to insert: inside (corners, cell borders) and outside
QtSampleCoords ==
    { <<0, 0>>, <<1, 0>>, <<QtSide - 1, QtSide - 1>>,
      <<QtSide \div 2, (QtSide \div 2) - 1>>, <<QtSide, 0>>, <<0, 0 - 1>> }

\* rectangles offered to query
QtSampleRanges ==
    { [x |-> rx, y |-> ry, width |-> rw, height |-> rh] :
        rx \in {0 - 1, 0, QtSide \div 2}, ry \in {0, 1},
        rw \in {0, 1, QtSide \div 2, QtSide + 1}, rh \in {1, QtSide} }

QtNewNode == [points |-> <<>>, divided |-> FALSE]

\* bounds of the node at a path of quadrant numbers (1 nw, 2 ne, 3 sw, 4 se)
RECURSIVE QtBounds(_)
QtBounds(path) ==
    IF path = <<>> THEN QtRootBounds
    ELSE LET b == QtBounds(SubSeq(path, 1, Len(path) - 1))
             q == path[Len(path)]
             w == b.width \div 2
             h == b.height \div 2
         IN [x |-> IF q \in {2, 4} THEN b.x + w ELSE b.x,
             y |-> IF q \in {3, 4} THEN b.y + h ELSE b.y,
             width |-> w, height |-> h]

\* contains with the far edges taken as inside
containsInclusive(bounds, point) ==
    /\ point.x >= bounds.x
    /\ point.x <= bounds.x + bounds.width
    /\ point.y >= bounds.y
    /\ point.y <= bounds.y + bounds.height

contains(bounds, point) ==
    /\ point.x >= bounds.x
    /\ point.x < bounds.x + bounds.width
    /\ point.y >= bounds.y
    /\ point.y < bounds.y + bounds.height

IsPrefix(p, q) == Len(p) <= Len(q) /\ SubSeq(q, 1, Len(p)) = p

RECURSIVE insert(_, _, _)
RECURSIVE insertToChildren(_, _, _)
RECURSIVE QtRedistribute(_, _, _)

\* subdivide that empties the node without handing its points to the children
subdivideDropping(t, path) ==
    LET kept == {p \in DOMAIN t : ~(IsPrefix(path, p) /\ p # path)}
        kids == {Append(path, q) : q \in 1..4}
    IN [p \in kept \cup kids |->
          IF p \in kids THEN QtNewNode
          ELSE IF p = path THEN [points |-> <<>>, divided |-> TRUE]
          ELSE t[p]]

\* the four children replace whatever an earlier clear() left under the node,
\* then the node's points are re-inserted into the children one by one
subdivide(t, path) ==
    LET kept == {p \in DOMAIN t : ~(IsPrefix(path, p) /\ p # path)}
        kids == {Append(path, q) : q \in 1..4}
        t1 == [p \in kept \cup kids |->
                 IF p \in kids THEN QtNewNode
                 ELSE IF p = path THEN [t[p] EXCEPT !.divided = TRUE]
                 ELSE t[p]]
        t2 == QtRedistribute(t1, path, t[path].points)
    IN [t2 EXCEPT ![path].points = <<>>]

QtRedistribute(t, path, pts) ==
    IF pts = <<>> THEN t
    ELSE QtRedistribute(insertToChildren(t, path, Head(pts)).t, path, Tail(pts))

\* the depth test taken one level early
QtAtMaxDepthEarly(path) == Len(path) >= QtMaxDepth - 1

\* this.depth >= this.maxDepth
QtAtMaxDepth(path) == Len(path) >= QtMaxDepth

\* insert that never splits a leaf
insertNoSplit(t, path, point) ==
    IF ~contains(QtBounds(path), point) THEN [t |-> t, ok |-> FALSE]
    ELSE [t |-> [t EXCEPT ![path].points = Append(@, point)], ok |-> TRUE]

insert(t, path, point) ==
    IF ~contains(QtBounds(path), point) THEN [t |-> t, ok |-> FALSE]
    ELSE IF ~t[path].divided
            /\ (Len(t[path].points) < QtCapacity \/ QtAtMaxDepth(path))
         THEN [t |-> [t EXCEPT ![path].points = Append(@, point)], ok |-> TRUE]
         ELSE insertToChildren(IF t[path].divided THEN t ELSE subdivide(t, path),
                               path, point)

insertToChildren(t, path, point) ==
    LET r1 == insert(t, Append(path, 1), point)
        r2 == insert(r1.t, Append(path, 2), point)
        r3 == insert(r2.t, Append(path, 3), point)
        r4 == insert(r3.t, Append(path, 4), point)
    IN IF r1.ok THEN r1 ELSE IF r2.ok THEN r2 ELSE IF r3.ok THEN r3 ELSE r4

\* intersects with the node's extent forgotten on the far sides
intersectsNoExtent(bounds, range) ==
    ~( \/ range.x > bounds.x
       \/ range.x + range.width < bounds.x
       \/ range.y > bounds.y
       \/ range.y + range.height < bounds.y )

intersects(bounds, range) ==
    ~( \/ range.x > bounds.x + bounds.width
       \/ range.x + range.width < bounds.x
       \/ range.y > bounds.y + bounds.height
       \/ range.y + range.height < bounds.y )

pointInRange(point, range) ==
    /\ point.x >= range.x
    /\ point.x < range.x + range.width
    /\ point.y >= range.y
    /\ point.y < range.y + range.height

RECURSIVE QtFilter(_, _)
QtFilter(pts, range) ==
    IF pts = <<>> THEN <<>>
    ELSE (IF pointInRange(Head(pts), range) THEN <<Head(pts)>> ELSE <<>>)
         \o QtFilter(Tail(pts), range)

RECURSIVE query(_, _, _)
query(t, path, range) ==
    IF ~intersects(QtBounds(path), range) THEN <<>>
    ELSE QtFilter(t[path].points, range)
         \o (IF t[path].divided
             THEN query(t, Append(path, 1), range) \o query(t, Append(path, 2), range)
                  \o query(t, Append(path, 3), range) \o query(t, Append(path, 4), range)
             ELSE <<>>)

\* clear() empties every node it reaches through divided nodes and marks it a leaf
RECURSIVE QtReachable(_, _)
QtReachable(t, path) ==
    {path} \cup (IF t[path].divided
                 THEN UNION {QtReachable(t, Append(path, q)) : q \in 1..4}
                 ELSE {})

clear(t) ==
    [p \in DOMAIN t |-> IF p \in QtReachable(t, <<>>) THEN QtNewNode ELSE t[p]]

QtStart ==
    /\ qt = [p \in {<<>>} |-> QtNewNode]
    /\ qtInserted = <<>>
    /\ qtCalls = 0
    /\ qtRet = [op |-> "none"]

QtInsertAct ==
    /\ qtCalls < QtMaxInserts
    /\ \E c \in QtSampleCoords :
         LET point == [x |-> c[1], y |-> c[2], data |-> qtCalls + 1]
             r == insert(qt, <<>>, point)
         IN /\ qt' = r.t
            /\ qtInserted' = IF r.ok THEN Append(qtInserted, point) ELSE qtInserted
            /\ qtRet' = [op |-> "insert", point |-> point, ok |-> r.ok]
    /\ qtCalls' = qtCalls + 1

QtQueryAct ==
    /\ \E range \in QtSampleRanges :
         qtRet' = [op |-> "query", range |-> range, found |-> query(qt, <<>>, range)]
    /\ UNCHANGED <<qt, qtInserted, qtCalls>>

QtClearAct ==
    /\ qt' = clear(qt)
    /\ qtInserted' = <<>>
    /\ qtRet' = [op |-> "clear"]
    /\ UNCHANGED qtCalls

QtNext ==
    \/ QtInsertAct /\ UNCHANGED <<lruVars, vpVars, clVars, poolVars, cacheVars, ebVars, rqVars, dbVars>>
    \/ QtQueryAct /\ UNCHANGED <<lruVars, vpVars, clVars, poolVars, cacheVars, ebVars, rqVars, dbVars>>
    \/ QtClearAct /\ UNCHANGED <<lruVars, vpVars, clVars, poolVars, cacheVars, ebVars, rqVars, dbVars>>


(***************************************************************************)
(* LRUCache (src/unnamed/part_009)                                         *)
(***************************************************************************)
LruKeys == {"A", "B", "C", "D"}
LruValues == {"v1", "v2"}
LruCapacities == {1, 2, 3}
NoKey == "none"

\* the example scenario: insert A, B, C, access A, insert D
LruScenario ==
    << [op |-> "set", key |-> "A"], [op |-> "set", key |-> "B"],
       [op |-> "set", key |-> "C"], [op |-> "get", key |-> "A"],
       [op |-> "set", key |-> "D"] >>

LruScenStep(n, op, key) ==
    IF n >= 0 /\ n < Len(LruScenario)
       /\ LruScenario[n + 1] = [op |-> op, key |-> key]
    THEN n + 1 ELSE 0 - 1

SeqRemove(s, e) == SelectSeq(s, LAMBDA x : x # e)

\* position of e in s, 0 if absent (Array.indexOf + 1)
IndexOf(s, e) ==
    IF e \in Range(s) THEN CHOOSE i \in DOMAIN s : s[i] = e /\ \A j \in 1..(i - 1) : s[j] # e
    ELSE 0

\* updateAccessOrder without the splice of the key's old position
updateAccessOrderNoSplice(order, key) == Append(order, key)

updateAccessOrder(order, key) ==
    LET index == IndexOf(order, key)
        spliced == IF index > 0
                   THEN SubSeq(order, 1, index - 1) \o SubSeq(order, index + 1, Len(order))
                   ELSE order
    IN Append(spliced, key)

MapRemove(f, k) == [x \in DOMAIN f \ {k} |-> f[x]]
MapPut(f, k, v) == [x \in DOMAIN f \cup {k} |-> IF x = k THEN v ELSE f[x]]
EmptyMap == [x \in {} |-> 0]

LruStart ==
    /\ lruCache = EmptyMap
    /\ lruAccessOrder = <<>>
    /\ lruTouched = <<>>
    /\ lruScen = 0
    /\ lruRet = [op |-> "none"]

\* get that returns the value without updating the access order
LruGetNoTouch(key) ==
    /\ lruRet' = IF key \notin DOMAIN lruCache
                 THEN [op |-> "get", key |-> key, hit |-> FALSE, value |-> "null"]
                 ELSE [op |-> "get", key |-> key, hit |-> TRUE, value |-> lruCache[key]]
    /\ lruTouched' = IF key \notin DOMAIN lruCache THEN lruTouched
                     ELSE Append(SeqRemove(lruTouched, key), key)
    /\ lruScen' = LruScenStep(lruScen, "get", key)
    /\ UNCHANGED <<lruCapacity, lruCache, lruAccessOrder>>

LruGet(key) ==
    /\ IF key \notin DOMAIN lruCache
       THEN /\ lruRet' = [op |-> "get", key |-> key, hit |-> FALSE, value |-> "null"]
            /\ UNCHANGED <<lruAccessOrder, lruTouched>>
       ELSE /\ lruAccessOrder' = updateAccessOrder(lruAccessOrder, key)
            /\ lruTouched' = Append(SeqRemove(lruTouched, key), key)
            /\ lruRet' = [op |-> "get", key |-> key, hit |-> TRUE,
                          value |-> lruCache[key]]
    /\ lruScen' = LruScenStep(lruScen, "get", key)
    /\ UNCHANGED <<lruCapacity, lruCache>>

\* shift() on an empty accessOrder yields undefined, and delete(undefined) removes nothing
LruSet(key, value) ==
    LET evict == Cardinality(DOMAIN lruCache) >= lruCapacity /\ key \notin DOMAIN lruCache
        lruKey == IF evict /\ lruAccessOrder # <<>> THEN Head(lruAccessOrder) ELSE NoKey
        order1 == IF evict /\ lruAccessOrder # <<>> THEN Tail(lruAccessOrder)
                  ELSE lruAccessOrder
        cache1 == IF evict THEN MapRemove(lruCache, lruKey) ELSE lruCache
    IN /\ lruCache' = MapPut(cache1, key, value)
       /\ lruAccessOrder' = updateAccessOrder(order1, key)
       /\ lruTouched' = Append(SeqRemove(lruTouched, key), key)
       /\ lruRet' = [op |-> "set", key |-> key, evicted |-> lruKey]
       /\ lruScen' = LruScenStep(lruScen, "set", key)
       /\ UNCHANGED lruCapacity

LruClear ==
    /\ lruCache' = EmptyMap
    /\ lruAccessOrder' = <<>>
    /\ lruRet' = [op |-> "clear"]
    /\ lruScen' = 0 - 1
    /\ UNCHANGED <<lruCapacity, lruTouched>>

LruGetAct == \E key \in LruKeys : LruGet(key)
LruSetAct == \E key \in LruKeys, value \in LruValues : LruSet(key, value)

LruNext ==
    \/ LruGetAct /\ UNCHANGED <<qtVars, vpVars, clVars, poolVars, cacheVars, ebVars, rqVars, dbVars>>
    \/ LruSetAct /\ UNCHANGED <<qtVars, vpVars, clVars, poolVars, cacheVars, ebVars, rqVars, dbVars>>
    \/ LruClear /\ UNCHANGED <<qtVars, vpVars, clVars, poolVars, cacheVars, ebVars, rqVars, dbVars>>

(***************************************************************************)
(* ViewportOptimizer (src/unnamed/part_004)                                *)
(* Time is counted in units of half the default throttle interval.         *)
(***************************************************************************)
updateThrottle == 2
VpMaxTime == 6
VpMaxRequests == 4

preloadMarginNum == 1
preloadMarginDen == 2
cleanupMargin == 2

\* candidate markers, on a line of latitudes at longitude 0
VpMarker(id, lat) == [id |-> id, lat |-> lat, lng |-> 0]

\* a marker with the fields calculateMarkerWeight reads
VpRatedMarker(id, lat, lng, reviews, average, amenity) ==
    [id |-> id, lat |-> lat, lng |-> lng, reviews |-> reviews,
     ratings |-> [average |-> average], amenity |-> amenity]

\* the last list puts three markers into the first viewport, the last of them
\* on its north-east corner
VpCandidates ==
    { <<>>,
      << VpMarker("r1", 10), VpMarker("r2", 13) >>,
      << VpMarker("r1", 10), VpMarker("r3", 19) >>,
      << VpMarker("r1", 10), VpRatedMarker("r4", 11, 1, 3, 5, "cafe"),
         VpRatedMarker("r5", 12, 2, 0, 3, "bar") >> }

VpViewports ==
    { [south |-> 10, north |-> 12, west |-> 0 - 2, east |-> 2, zoom |-> 15],
      [south |-> 18, north |-> 20, west |-> 0 - 2, east |-> 2, zoom |-> 12] }

\* options.maxMarkersPerLevel: zoom level -> budget
maxMarkersPerLevel == (10 :> 2) @@ (15 :> 1)

\* Math.sqrt(1 / samplingRate), for a sampling rate of 0.25
gridSize == 2

NoViewport == [zoom |-> 0 - 1]

calculatePreloadViewport(viewport) ==
    LET latSpan == viewport.north - viewport.south
        lngSpan == viewport.east - viewport.west
    IN [south |-> viewport.south - (latSpan * preloadMarginNum) \div preloadMarginDen,
        north |-> viewport.north + (latSpan * preloadMarginNum) \div preloadMarginDen,
        west |-> viewport.west - (lngSpan * preloadMarginNum) \div preloadMarginDen,
        east |-> viewport.east + (lngSpan * preloadMarginNum) \div preloadMarginDen,
        zoom |-> viewport.zoom]

isInBounds(marker, bounds) ==
    /\ marker.lat >= bounds.south
    /\ marker.lat <= bounds.north
    /\ marker.lng >= bounds.west
    /\ marker.lng <= bounds.east

filterVisibleMarkers(markers, viewport) ==
    SelectSeq(markers, LAMBDA m : isInBounds(m, viewport))

\* visibleSet is this.visibleMarkers as it is when the filter runs
filterPreloadMarkers(markers, visibleSet, preload) ==
    SelectSeq(markers, LAMBDA m : m.id \notin visibleSet /\ isInBounds(m, preload))

\* MarkerManager.updateMarker(marker, visible): the marker is tracked with that flag
MmUpdateMarker(tracked, marker, visible) ==
    MapPut(tracked, marker.id, [marker |-> marker, visible |-> visible])

RECURSIVE MmUpdateAll(_, _, _)
MmUpdateAll(tracked, markers, visible) ==
    IF markers = <<>> THEN tracked
    ELSE MmUpdateAll(MmUpdateMarker(tracked, Head(markers), visible), Tail(markers), visible)

\* cleanupMarkers that subtracts the margin from the preload rectangle
cleanupMarkersShrunk(tracked, preload) ==
    LET cleanupBounds == [south |-> preload.south + cleanupMargin,
                          north |-> preload.north - cleanupMargin,
                          west |-> preload.west + cleanupMargin,
                          east |-> preload.east - cleanupMargin]
    IN {id \in DOMAIN tracked : ~isInBounds(tracked[id].marker, cleanupBounds)}

\* ids that cleanupMarkers removes: tracked markers outside the cleanup rectangle
cleanupMarkers(tracked, preload) ==
    LET cleanupBounds == [south |-> preload.south - cleanupMargin,
                          north |-> preload.north + cleanupMargin,
                          west |-> preload.west - cleanupMargin,
                          east |-> preload.east + cleanupMargin]
    IN {id \in DOMAIN tracked : ~isInBounds(tracked[id].marker, cleanupBounds)}

SeqIds(markers) == {markers[i].id : i \in DOMAIN markers}

\* getMaxMarkersForZoom that always takes the lowest level's budget
getMaxMarkersForZoomLowest(zoom) ==
    maxMarkersPerLevel[CHOOSE l \in DOMAIN maxMarkersPerLevel :
                         \A k \in DOMAIN maxMarkersPerLevel : l <= k]

getMaxMarkersForZoom(zoom) ==
    LET levels == DOMAIN maxMarkersPerLevel
        reached == {l \in levels : zoom >= l}
        lowest == CHOOSE l \in levels : \A k \in levels : l <= k
    IN IF reached # {}
       THEN maxMarkersPerLevel[CHOOSE l \in reached : \A k \in reached : k <= l]
       ELSE maxMarkersPerLevel[lowest]

\* the weight in tenths
calculateMarkerWeight(marker) ==
    10
    + (IF "reviews" \in DOMAIN marker /\ marker.reviews > 0
       THEN Min(marker.reviews * 2, 20) ELSE 0)
    + (IF "ratings" \in DOMAIN marker /\ marker.ratings.average > 4 THEN 5 ELSE 0)
    + (IF "amenity" \in DOMAIN marker /\ marker.amenity \in {"restaurant", "cafe"}
       THEN 3 ELSE 0)

\* Coordinates are multiplied by 2 * gridSize, which makes the steps and the
\* half steps whole.  The quadtree built over the viewport holds the markers
\* inside its half-open root and answers a query with those inside the
\* half-open range; the samples are listed in the order of the two loops.
sampleViewportDensity(markers, viewport) ==
    LET K == 2 * gridSize
        latHalf == viewport.north - viewport.south
        lngHalf == viewport.east - viewport.west
        held == SelectSeq(markers, LAMBDA m :
                  contains([x |-> K * viewport.west, y |-> K * viewport.south,
                            width |-> K * lngHalf, height |-> K * latHalf],
                           [x |-> K * m.lng, y |-> K * m.lat]))
        sample(i, j) ==
            LET lat == K * viewport.south + i * 2 * latHalf
                lng == K * viewport.west + j * 2 * lngHalf
                range == [x |-> lng - lngHalf, y |-> lat - latHalf,
                          width |-> 2 * lngHalf, height |-> 2 * latHalf]
                nearby == SelectSeq(held, LAMBDA m :
                            pointInRange([x |-> K * m.lng, y |-> K * m.lat], range))
            IN [lat |-> lat, lng |-> lng, density |-> Len(nearby)]
    IN [n \in 1..((gridSize + 1) * (gridSize + 1)) |->
          sample((n - 1) \div (gridSize + 1), (n - 1) % (gridSize + 1))]

\* the first of the samples at the least distance from the marker
findNearestSample(marker, samples) ==
    LET K == 2 * gridSize
        d2 == [n \in DOMAIN samples |->
                 (samples[n].lng - K * marker.lng) * (samples[n].lng - K * marker.lng)
                 + (samples[n].lat - K * marker.lat) * (samples[n].lat - K * marker.lat)]
    IN samples[CHOOSE n \in DOMAIN samples :
                 /\ \A k \in DOMAIN samples : d2[n] <= d2[k]
                 /\ \A k \in 1..(n - 1) : d2[k] > d2[n]]

\* the sort is stable: markers of equal weight keep their order
selectOptimalMarkers(markers, samples, maxMarkers) ==
    LET num == [i \in DOMAIN markers |-> calculateMarkerWeight(markers[i])]
        den == [i \in DOMAIN markers |->
                  findNearestSample(markers[i], samples).density + 1]
        rank == [i \in DOMAIN markers |->
                   1 + Cardinality({j \in DOMAIN markers :
                                      num[j] * den[i] > num[i] * den[j]})
                     + Cardinality({j \in 1..(i - 1) :
                                      num[j] * den[i] = num[i] * den[j]})]
        sorted == [k \in DOMAIN markers |->
                     markers[CHOOSE i \in DOMAIN markers : rank[i] = k]]
    IN SubSeq(sorted, 1, Min(maxMarkers, Len(markers)))

optimizeMarkerDensity(markers, viewport) ==
    LET maxMarkers == getMaxMarkersForZoom(viewport.zoom)
    IN IF Len(markers) <= maxMarkers THEN markers
       ELSE CHOOSE selected \in
              { selectOptimalMarkers(markers, samples, maxMarkers) :
                  samples \in {sampleViewportDensity(markers, viewport)} } : TRUE

\* processViewportUpdate(markers) for request req, reading the current viewport
\* fields; the stages are bound one after the other as the code computes them
processViewportUpdate(req, markers) ==
    \E viewport \in {currentViewport'}, preloadBounds \in {preloadViewport'} :
    \E visible \in {filterVisibleMarkers(markers, viewport)},
       preload \in {filterPreloadMarkers(markers, {}, preloadBounds)} :
    \E optimized \in {optimizeMarkerDensity(visible, viewport)} :
    \E tracked1 \in {MmUpdateAll(MmUpdateAll(vpTracked, optimized, TRUE), preload, FALSE)} :
    \E culled \in {cleanupMarkers(tracked1, preloadBounds)} :
       /\ visibleMarkers' = SeqIds(optimized)
       /\ preloadedMarkers' = SeqIds(preload)
       /\ vpTracked' = [id \in DOMAIN tracked1 \ culled |-> tracked1[id]]
       /\ vpMetrics' = [visibleCount |-> Len(optimized),
                        preloadedCount |-> Len(preload),
                        culledCount |-> vpMetrics.culledCount + Cardinality(culled)]
       /\ lastUpdate' = vpNow
       /\ vpProcessed' = Append(vpProcessed, req)
       /\ vpSeen' = [markers |-> markers, viewport |-> viewport,
                     preload |-> preloadBounds]

\* clearTimeout that cancels nothing
clearTimeoutNoop(timers, handle) == timers

\* clearTimeout(handle): no effect when that timer has fired or was cleared
clearTimeout(timers, handle) == {t \in timers : t.handle # handle}

updateViewport(viewport, markers) ==
    LET req == vpRequests + 1
        deferred == vpNow - lastUpdate < updateThrottle
    IN /\ vpRequests < VpMaxRequests
       /\ vpRequests' = req
       /\ currentViewport' = viewport
       /\ preloadViewport' = calculatePreloadViewport(viewport)
       /\ vpRet' = [req |-> req, deferred |-> deferred, elapsed |-> vpNow - lastUpdate]
       /\ IF deferred
          THEN /\ vpTimers' =
                    (IF updateTimer # 0 THEN clearTimeout(vpTimers, updateTimer)
                     ELSE vpTimers)
                    \cup {[handle |-> req, due |-> vpNow + updateThrottle,
                           req |-> req, markers |-> markers]}
               /\ vpReplaced' = vpReplaced \cup
                    (IF updateTimer # 0
                     THEN {t.req : t \in {u \in vpTimers : u.handle = updateTimer}}
                     ELSE {})
               /\ updateTimer' = req
               /\ UNCHANGED <<visibleMarkers, preloadedMarkers, lastUpdate, vpMetrics,
                              vpTracked, vpProcessed, vpSeen>>
          ELSE /\ processViewportUpdate(req, markers)
               /\ UNCHANGED <<updateTimer, vpTimers, vpReplaced>>
       /\ UNCHANGED vpNow

\* a timer set by updateViewport fires, no earlier than its delay
VpTimerFire ==
    \E t \in vpTimers :
        /\ vpNow >= t.due
        /\ vpTimers' = vpTimers \ {t}
        /\ UNCHANGED <<currentViewport, preloadViewport>>
        /\ processViewportUpdate(t.req, t.markers)
        /\ UNCHANGED <<updateTimer, vpNow, vpRequests, vpReplaced, vpRet>>

VpTick ==
    /\ vpNow < VpMaxTime
    /\ vpNow' = vpNow + 1
    /\ UNCHANGED <<currentViewport, preloadViewport, visibleMarkers, preloadedMarkers,
                   updateTimer, lastUpdate, vpMetrics, vpTimers, vpTracked,
                   vpRequests, vpProcessed, vpReplaced, vpSeen, vpRet>>

VpUpdateViewportAct ==
    \E viewport \in VpViewports, markers \in VpCandidates : updateViewport(viewport, markers)

VpStart ==
    /\ currentViewport = NoViewport
    /\ preloadViewport = NoViewport
    /\ visibleMarkers = {}
    /\ preloadedMarkers = {}
    /\ updateTimer = 0
    /\ lastUpdate = 0
    /\ vpMetrics = [visibleCount |-> 0, preloadedCount |-> 0, culledCount |-> 0]
    /\ vpTimers = {}
    /\ vpNow = updateThrottle
    /\ vpTracked = EmptyMap
    /\ vpRequests = 0
    /\ vpProcessed = <<>>
    /\ vpReplaced = {}
    /\ vpSeen = [markers |-> <<>>, viewport |-> NoViewport, preload |-> NoViewport]
    /\ vpRet = [req |-> 0]

VpNext ==
    \/ VpUpdateViewportAct /\ UNCHANGED <<qtVars, lruVars, clVars, poolVars, cacheVars, ebVars, rqVars, dbVars>>
    \/ VpTimerFire /\ UNCHANGED <<qtVars, lruVars, clVars, poolVars, cacheVars, ebVars, rqVars, dbVars>>
    \/ VpTick /\ UNCHANGED <<qtVars, lruVars, clVars, poolVars, cacheVars, ebVars, rqVars, dbVars>>

(***************************************************************************)
(* ClusterManager (src/unnamed/part_002)                                   *)
(* Points lie on the integer grid of the QuadTree model; the cluster       *)
(* radius is given in grid units.                                          *)
(***************************************************************************)
minZoom == 10
zoomThreshold == 16
clusterRadius == 2
minClusterSize == 2
transitionDuration == 300

ClZooms == {minZoom, zoomThreshold}

ClPoint(id, lat, lng) == [id |-> id, lat |-> lat, lng |-> lng, weight |-> 1]

\* three points within the radius of one another and one far from them
ClUniverse ==
    { ClPoint("p1", 0, 0), ClPoint("p2", 0, 1), ClPoint("p3", 1, 1),
      ClPoint("p4", QtSide - 1, QtSide - 1) }

\* the point lists offered to calculateClusters: every arrangement of distinct points
ClPointLists ==
    UNION { {s \in [1..n -> ClUniverse] : \A i, j \in 1..n : i # j => s[i] # s[j]} :
            n \in 0..Cardinality(ClUniverse) }

\* the projection on the grid: x grows with lng, y falls as lat grows
latLngToXY(lat, lng) == [x |-> lng, y |-> (QtSide - 1) - lat]

RECURSIVE ClInsertAll(_, _)
ClInsertAll(t, points) ==
    IF points = <<>> THEN t
    ELSE LET coords == latLngToXY(Head(points).lat, Head(points).lng)
         IN ClInsertAll(insert(t, <<>>, [x |-> coords.x, y |-> coords.y,
                                         data |-> Head(points)]).t,
                        Tail(points))

\* the radius shrinks by the factor 0.8 per zoom level above minZoom
calculateClusterRadius(zoom) ==
    (clusterRadius * (4 ^ (zoom - minZoom))) \div (5 ^ (zoom - minZoom))

findNeighbors(t, point, radius) ==
    LET center == latLngToXY(point.lat, point.lng)
        r == radius
        searchBounds == [x |-> center.x - r, y |-> center.y - r,
                         width |-> r * 2, height |-> r * 2]
        found == query(t, <<>>, searchBounds)
        data == [i \in DOMAIN found |-> found[i].data]
    IN SelectSeq(data, LAMBDA q : q.id # point.id)

\* stable sort, densest first (Array.prototype.sort with b - a)
RECURSIVE ClInsertSorted(_, _, _)
ClInsertSorted(sorted, point, density) ==
    IF sorted = <<>> THEN <<point>>
    ELSE IF density[point] > density[sorted[Len(sorted)]]
         THEN Append(ClInsertSorted(SubSeq(sorted, 1, Len(sorted) - 1), point, density),
                     sorted[Len(sorted)])
         ELSE Append(sorted, point)

RECURSIVE ClSortFrom(_, _, _)
ClSortFrom(sorted, rest, density) ==
    IF rest = <<>> THEN sorted
    ELSE ClSortFrom(ClInsertSorted(sorted, Head(rest), density), Tail(rest), density)

sortByDensity(t, points, radius) ==
    LET densities == [q \in Range(points) |-> Len(findNeighbors(t, q, radius))]
    IN ClSortFrom(<<>>, points, densities)

\* the reduce of createCluster: sums of lat * weight, lng * weight and weight
RECURSIVE ClCenter(_)
ClCenter(points) ==
    IF points = <<>> THEN [lat |-> 0, lng |-> 0, weight |-> 0]
    ELSE LET acc == ClCenter(SubSeq(points, 1, Len(points) - 1))
             q == points[Len(points)]
         IN [lat |-> acc.lat + q.lat * q.weight,
             lng |-> acc.lng + q.lng * q.weight,
             weight |-> acc.weight + q.weight]

SetMin(S) == CHOOSE m \in S : \A x \in S : m <= x
SetMax(S) == CHOOSE m \in S : \A x \in S : m >= x

calculateClusterBounds(points) ==
    [south |-> SetMin({q.lat : q \in Range(points)}),
     north |-> SetMax({q.lat : q \in Range(points)}),
     west |-> SetMin({q.lng : q \in Range(points)}),
     east |-> SetMax({q.lng : q \in Range(points)})]

\* position is the weighted centre, kept as the sums and the total weight
createCluster(id, points) ==
    [id |-> id,
     position |-> ClCenter(points),
     points |-> points,
     isCluster |-> TRUE,
     count |-> Len(points),
     bounds |-> calculateClusterBounds(points)]

ClSingle(point) ==
    [id |-> point.id,
     position |-> [lat |-> point.lat, lng |-> point.lng, weight |-> 1],
     points |-> <<point>>,
     isCluster |-> FALSE]

\* Map.set: an entry with the same id is replaced in place, a new one is appended
ClMapSet(entries, e) ==
    IF \E i \in DOMAIN entries : entries[i].id = e.id
    THEN [i \in DOMAIN entries |-> IF entries[i].id = e.id THEN e ELSE entries[i]]
    ELSE Append(entries, e)

\* the loop of findClusters over the sorted points
RECURSIVE ClLoop(_, _, _, _, _, _)
ClLoop(t, rest, radius, found, processed, clusterId) ==
    IF rest = <<>> THEN found
    ELSE LET point == Head(rest)
             neighborPoints == findNeighbors(t, point, radius)
         IN IF point.id \in processed
            THEN ClLoop(t, Tail(rest), radius, found, processed, clusterId)
            ELSE IF Len(neighborPoints) >= minClusterSize
                 THEN ClLoop(t, Tail(rest), radius,
                             ClMapSet(found, createCluster(<<"cluster", clusterId>>,
                                                           neighborPoints)),
                             processed \cup {q.id : q \in Range(neighborPoints)},
                             clusterId + 1)
                 ELSE ClLoop(t, Tail(rest), radius,
                             ClMapSet(found, ClSingle(point)),
                             processed \cup {point.id}, clusterId)

findClusters(t, points, radius) ==
    ClLoop(t, sortByDensity(t, points, radius), radius, <<>>, {}, 0)

\* processPointsWithoutClustering that passes over the first point
processPointsWithoutClusteringSkipFirst(points) ==
    IF points = <<>> THEN <<>>
    ELSE [i \in 1..(Len(points) - 1) |-> ClSingle(points[i + 1])]

RECURSIVE processPointsWithoutClustering(_)
processPointsWithoutClustering(points) ==
    IF points = <<>> THEN <<>>
    ELSE ClMapSet(processPointsWithoutClustering(SubSeq(points, 1, Len(points) - 1)),
                  ClSingle(points[Len(points)]))

\* rational positions are equal when their cross products are
ClSamePosition(a, b) ==
    a.lat * b.weight = b.lat * a.weight /\ a.lng * b.weight = b.lng * a.weight

ClCount(c) == IF c.isCluster THEN c.count ELSE 0 - 1

needsTransition(previous, current) ==
    ~ClSamePosition(previous.position, current.position)
    \/ ClCount(previous) # ClCount(current)

\* this.transitions after updateTransitions(newClusters), given previousClusters
updateTransitions(previous, newClusters) ==
    LET changed == SelectSeq(newClusters,
                     LAMBDA c : \E i \in DOMAIN previous :
                                   /\ previous[i].id = c.id
                                   /\ needsTransition(previous[i], c))
    IN [i \in DOMAIN changed |->
          [id |-> changed[i].id,
           start |-> (CHOOSE q \in Range(previous) : q.id = changed[i].id).position,
           end |-> changed[i].position,
           duration |-> transitionDuration,
           cluster |-> changed[i]]]

calculateClusters(points, zoom) ==
    LET cleared == clear(clQuadtree)
        tree == ClInsertAll(cleared, points)
        radius == calculateClusterRadius(zoom)
        found == findClusters(tree, points, radius)
    IN /\ previousClusters' = clusters
       /\ clusters' = <<>>
       /\ IF zoom >= zoomThreshold
          THEN /\ clQuadtree' = cleared
               /\ UNCHANGED transitions
               /\ clMetrics' = [points |-> Len(points), clusters |-> 0]
               /\ clRet' = [points |-> points, zoom |-> zoom, radius |-> radius,
                            clusters |-> processPointsWithoutClustering(points),
                            transitions |-> <<>>]
          ELSE /\ clQuadtree' = tree
               /\ transitions' = updateTransitions(clusters, found)
               /\ clMetrics' = [points |-> Len(points), clusters |-> Len(found)]
               /\ clRet' = [points |-> points, zoom |-> zoom, radius |-> radius,
                            clusters |-> found,
                            transitions |-> updateTransitions(clusters, found)]

ClCalculateClustersAct ==
    \E points \in ClPointLists, zoom \in ClZooms : calculateClusters(points, zoom)

ClClearAct ==
    /\ clQuadtree' = clear(clQuadtree)
    /\ clusters' = <<>>
    /\ previousClusters' = <<>>
    /\ transitions' = <<>>
    /\ UNCHANGED <<clMetrics, clRet>>

ClStart ==
    /\ clQuadtree = [p \in {<<>>} |-> QtNewNode]
    /\ clusters = <<>>
    /\ previousClusters = <<>>
    /\ transitions = <<>>
    /\ clMetrics = [points |-> 0, clusters |-> 0]
    /\ clRet = [points |-> <<>>, zoom |-> 0, radius |-> 0, clusters |-> <<>>,
                transitions |-> <<>>]

ClNext ==
    \/ ClCalculateClustersAct /\ UNCHANGED <<qtVars, lruVars, vpVars, poolVars, cacheVars, ebVars, rqVars, dbVars>>
    \/ ClClearAct /\ UNCHANGED <<qtVars, lruVars, vpVars, poolVars, cacheVars, ebVars, rqVars, dbVars>>

(***************************************************************************)
(* VirtualMarkerPool (src/unnamed/part_002) and MarkerManager              *)
(* (src/unnamed/part_006)                                                  *)
(***************************************************************************)
poolSize == 1
batchSize == 1
PoolMaxCycles == 2

growthFactorNum == 3
growthFactorDen == 2
recycleThresholdNum == 3
recycleThresholdDen == 10
FRAME_BUDGET == 16

PoolEntities == <<"r1", "r2">>
NoData == [null |-> TRUE, list |-> <<>>]
SomeData(list) == [null |-> FALSE, list |-> list]
Absent == [absent |-> TRUE]

\* the states an entity is offered in: moved, or with reviews added
PoolVariants ==
    << { [lat |-> 1, reviews |-> 0], [lat |-> 2, reviews |-> 0],
         [lat |-> 1, reviews |-> 1] },
       { [lat |-> 1, reviews |-> 0] } >>

PoolRestaurant(id, v) ==
    [id |-> id, lat |-> v.lat, lng |-> 0, name |-> id, amenity |-> "restaurant",
     reviews |-> v.reviews]

\* the restaurant lists offered to the pool: each entity absent or in one variant
PoolRestaurantLists ==
    { (IF c[1] = Absent THEN <<>> ELSE <<PoolRestaurant(PoolEntities[1], c[1])>>)
      \o (IF c[2] = Absent THEN <<>> ELSE <<PoolRestaurant(PoolEntities[2], c[2])>>) :
      c \in { f \in [1..2 -> PoolVariants[1] \cup PoolVariants[2] \cup {Absent}] :
                 \A i \in 1..2 : f[i] \in PoolVariants[i] \cup {Absent} } }

NoElement == [null |-> TRUE]
NewMarker ==
    [state |-> [position |-> <<>>, visible |-> FALSE, props |-> <<>>],
     element |-> NoElement]

\* Set.add / Map entries kept in insertion order
SeqAdd(s, e) == IF e \in Range(s) THEN s ELSE Append(s, e)
EntryIds(entries) == {entries[i].id : i \in DOMAIN entries}
EntryGet(entries, id) == (CHOOSE e \in Range(entries) : e.id = id).vm

\* the pool's own fields as one record, so that its methods compose
PoolRec ==
    [markerPool |-> markerPool, markerObjects |-> markerObjects,
     recycledMarkers |-> recycledMarkers, activeMarkers |-> activeMarkers,
     virtualMarkers |-> virtualMarkers, pendingUpdates |-> pendingUpdates,
     metrics |-> metrics, rafQueue |-> rafQueue, marker |-> 0]

PoolSet(P) ==
    /\ markerPool' = P.markerPool
    /\ markerObjects' = P.markerObjects
    /\ recycledMarkers' = P.recycledMarkers
    /\ activeMarkers' = P.activeMarkers
    /\ virtualMarkers' = P.virtualMarkers
    /\ pendingUpdates' = P.pendingUpdates
    /\ metrics' = P.metrics
    /\ rafQueue' = P.rafQueue

\* growPool(count) up to its first await: the first batch is handed to
\* requestAnimationFrame when there is one
growPool(P, count) ==
    IF count > 0
    THEN [P EXCEPT !.rafQueue = Append(@, [kind |-> "grow", count |-> count, i |-> 0])]
    ELSE P

\* the new marker is P.marker of the result
createMarker(P) ==
    LET id == P.metrics.created
    IN [P EXCEPT !.metrics.created = @ + 1,
                 !.markerPool = @ \cup {id},
                 !.markerObjects = MapPut(@, id, NewMarker),
                 !.recycledMarkers = SeqAdd(@, id),
                 !.marker = id]

\* acquireMarker that grows the pool by growthFactor times its size
acquireMarkerGrowsByFactor(P) ==
    IF Len(P.recycledMarkers) > 0
    THEN [P EXCEPT !.marker = Head(P.recycledMarkers),
                   !.recycledMarkers = Tail(@)]
    ELSE createMarker(
           IF Cardinality(DOMAIN P.activeMarkers) * recycleThresholdDen
                >= Cardinality(P.markerPool) * (recycleThresholdDen - recycleThresholdNum)
           THEN growPool(P, (Cardinality(P.markerPool) * growthFactorNum)
                            \div growthFactorDen)
           ELSE P)

acquireMarker(P) ==
    IF Len(P.recycledMarkers) > 0
    THEN [P EXCEPT !.marker = Head(P.recycledMarkers),
                   !.recycledMarkers = Tail(@)]
    ELSE createMarker(
           IF Cardinality(DOMAIN P.activeMarkers) * recycleThresholdDen
                >= Cardinality(P.markerPool) * (recycleThresholdDen - recycleThresholdNum)
           THEN growPool(P, (Cardinality(P.markerPool) * (growthFactorNum - growthFactorDen))
                            \div growthFactorDen)
           ELSE P)

updateMarker(P, id, virtualMarker) ==
    LET P1 == IF id \in DOMAIN P.activeMarkers THEN P
              ELSE LET A == acquireMarker(P)
                   IN [A EXCEPT !.activeMarkers = MapPut(@, id, A.marker)]
        marker == P1.activeMarkers[id]
    IN [P1 EXCEPT !.markerObjects[marker].state =
                      [position |-> virtualMarker.position, visible |-> TRUE,
                       props |-> virtualMarker.props]]

\* removeMarker that recycles the marker without hiding it
removeMarkerStillVisible(P, id) ==
    IF id \in DOMAIN P.activeMarkers
    THEN [P EXCEPT !.activeMarkers = MapRemove(@, id),
                   !.recycledMarkers = SeqAdd(@, P.activeMarkers[id])]
    ELSE P

removeMarker(P, id) ==
    IF id \in DOMAIN P.activeMarkers
    THEN LET marker == P.activeMarkers[id]
         IN [P EXCEPT !.markerObjects[marker].state.visible = FALSE,
                      !.activeMarkers = MapRemove(@, id),
                      !.recycledMarkers = SeqAdd(@, marker)]
    ELSE P

getMarkerIcon(restaurant) ==
    [type |-> restaurant.amenity, hasReviews |-> restaurant.reviews > 0]

PoolVirtualMarker(restaurant) ==
    [position |-> <<restaurant.lat, restaurant.lng>>,
     props |-> [title |-> restaurant.name, amenity |-> restaurant.amenity,
                hasReviews |-> restaurant.reviews > 0, ratings |-> "{}",
                icon |-> getMarkerIcon(restaurant)]]

\* JSON.stringify on the prop values of this model (strings, booleans and plain
\* records of them): the text of a value, the same for equal values only
JsonStringify(v) == <<"json", v>>

PropKeys == {"title", "amenity", "hasReviews", "ratings", "icon"}

needsUpdate(existing, next) ==
    \/ existing.position[1] # next.position[1]
    \/ existing.position[2] # next.position[2]
    \/ \E key \in PropKeys :
         JsonStringify(existing.props[key]) # JsonStringify(next.props[key])

RECURSIVE PoolRemoveAbsent(_, _, _)
PoolRemoveAbsent(P, previous, newIds) ==
    IF previous = <<>> THEN P
    ELSE PoolRemoveAbsent(IF Head(previous).id \in newIds THEN P
                          ELSE removeMarker(P, Head(previous).id),
                          Tail(previous), newIds)

updateVirtualMarkers(P, restaurants) ==
    LET previousVirtual == P.virtualMarkers
        newVirtual == [i \in DOMAIN restaurants |->
                         [id |-> restaurants[i].id, vm |-> PoolVirtualMarker(restaurants[i])]]
        updates == SelectSeq(newVirtual,
                     LAMBDA e : \/ e.id \notin EntryIds(previousVirtual)
                                \/ needsUpdate(EntryGet(previousVirtual, e.id), e.vm))
        P1 == PoolRemoveAbsent(P, previousVirtual, EntryIds(newVirtual))
    IN [P1 EXCEPT !.virtualMarkers = newVirtual, !.pendingUpdates = updates]

RECURSIVE PoolApplyBatch(_, _)
PoolApplyBatch(P, batch) ==
    IF batch = <<>> THEN P
    ELSE PoolApplyBatch(updateMarker(P, Head(batch).id, Head(batch).vm), Tail(batch))

RECURSIVE PoolCreateN(_, _)
PoolCreateN(P, n) == IF n = 0 THEN P ELSE PoolCreateN(createMarker(P), n - 1)


clusterThreshold == 100

\* MarkerManager.estimateUpdateTime(update), in the units of FRAME_BUDGET: the
\* estimated cost of applying one update.  The three variants of an entity
\* cost 6, 12 and 18: two of the first fit one frame, the second fits a frame
\* but not together with a first, the third exceeds the budget on its own.
estimateUpdateTime(update) ==
    IF update.vm.props.hasReviews THEN 18
    ELSE IF update.vm.position[1] > 1 THEN 12 ELSE 6

\* the split that puts all updates into one batch
MmSplitWhole(updates, done, currentBatch, currentBatchTime) ==
    IF updates = <<>> THEN <<>> ELSE <<updates>>

\* the batches of applyUpdatesWithBudget: `done` are the batches closed so far
RECURSIVE MmSplit(_, _, _, _)
MmSplit(updates, done, currentBatch, currentBatchTime) ==
    IF updates = <<>>
    THEN (IF Len(currentBatch) > 0 THEN Append(done, currentBatch) ELSE done)
    ELSE LET estimatedTime == estimateUpdateTime(Head(updates))
         IN IF currentBatchTime + estimatedTime > FRAME_BUDGET
            THEN MmSplit(Tail(updates),
                         IF Len(currentBatch) > 0 THEN Append(done, currentBatch) ELSE done,
                         <<Head(updates)>>, estimatedTime)
            ELSE MmSplit(Tail(updates), done, Append(currentBatch, Head(updates)),
                         currentBatchTime + estimatedTime)

\* the zoom condition of shouldCluster is left out: the lists of this model
\* never exceed clusterThreshold
shouldCluster(data) == ~data.null /\ Len(data.list) > clusterThreshold

getLayerGroupForMarker(data, virtualMarker) ==
    IF shouldCluster(data) THEN "cluster"
    ELSE IF virtualMarker.props.hasReviews THEN "reviewed" ELSE "default"

createMapMarker(virtualMarker) ==
    [latlng |-> virtualMarker.position, originalData |-> virtualMarker.props,
     layerGroup |-> "none"]

updateMapMarkerElement(element, virtualMarker) ==
    [element EXCEPT
       !.latlng = IF @ # virtualMarker.position THEN virtualMarker.position ELSE @,
       !.originalData = IF JsonStringify(@) # JsonStringify(virtualMarker.props)
                        THEN virtualMarker.props ELSE @]

updateMapMarker(P, data, id, virtualMarker) ==
    IF id \notin DOMAIN P.activeMarkers THEN P
    ELSE LET marker == P.activeMarkers[id]
             e1 == IF P.markerObjects[marker].element = NoElement
                   THEN createMapMarker(virtualMarker)
                   ELSE updateMapMarkerElement(P.markerObjects[marker].element,
                                               virtualMarker)
             layerGroup == getLayerGroupForMarker(data, virtualMarker)
         IN [P EXCEPT !.markerObjects[marker].element =
                         [e1 EXCEPT !.layerGroup = layerGroup]]

RECURSIVE MmApplyBatch(_, _, _)
MmApplyBatch(P, data, batch) ==
    IF batch = <<>> THEN P
    ELSE MmApplyBatch(updateMapMarker(P, data, Head(batch).id, Head(batch).vm),
                      data, Tail(batch))

PoolQuiet == rafRunning = <<>>

\* ids whose position and props in `restaurants` equal those of the snapshot before
PoolUnchangedIds(restaurants) ==
    {restaurants[i].id : i \in {j \in DOMAIN restaurants :
        /\ restaurants[j].id \in EntryIds(virtualMarkers)
        /\ EntryGet(virtualMarkers, restaurants[j].id) = PoolVirtualMarker(restaurants[j])}}

\* entities of `ids` whose pooled marker, as bound in P, differs in Q
PoolTouched(P, Q, ids) ==
    {id \in ids \cap DOMAIN P.activeMarkers :
        \/ id \notin DOMAIN Q.activeMarkers
        \/ Q.activeMarkers[id] # P.activeMarkers[id]
        \/ Q.markerObjects[P.activeMarkers[id]] # P.markerObjects[P.activeMarkers[id]]}

PoolGhostStep ==
    [poolGhost EXCEPT !.batchCycle = 0, !.stale = FALSE, !.touched = {}]

PoolGhostBatch(cycle, P, Q) ==
    [poolGhost EXCEPT
       !.batchCycle = cycle,
       !.stale = cycle < poolGhost.maxBatchCycle,
       !.maxBatchCycle = IF cycle > @ THEN cycle ELSE @,
       !.touched = IF cycle = poolCycles
                   THEN PoolTouched(P, Q, poolGhost.unchangedIds) ELSE {}]

\* initialize(): growPool(poolSize) up to its first await, for a pool
\* constructed with the given poolSize
PoolInitializeOn(size) ==
    /\ PoolQuiet
    /\ ~poolInitialized
    /\ poolInitialized' = TRUE
    /\ PoolSet(growPool(PoolRec, size))
    /\ poolGhost' = PoolGhostStep
    /\ UNCHANGED <<rafRunning, pendingData, mmTimer, poolCycles>>

PoolInitializeAct == PoolInitializeOn(poolSize)

\* a caller of the pool calls updateVirtualMarkers(restaurants), with a list
\* from the given set
PoolUpdateVirtualMarkersOn(lists) ==
    /\ PoolQuiet
    /\ poolCycles < PoolMaxCycles
    /\ \E restaurants \in lists :
         LET Q == updateVirtualMarkers(PoolRec, restaurants)
         IN /\ PoolSet(Q)
            /\ poolGhost' = [PoolGhostStep EXCEPT
                               !.unchangedIds = PoolUnchangedIds(restaurants),
                               !.queuedIds = EntryIds(Q.pendingUpdates),
                               !.skipped = @ \/ poolGhost.appliedCycle # poolCycles]
    /\ poolCycles' = poolCycles + 1
    /\ UNCHANGED <<rafRunning, pendingData, mmTimer, poolInitialized>>

PoolUpdateVirtualMarkersAct == PoolUpdateVirtualMarkersOn(PoolRestaurantLists)

\* a caller of the pool calls applyUpdates(), once per snapshot: the run up to
\* its first await
PoolApplyUpdatesAct ==
    /\ PoolQuiet
    /\ poolCycles > 0
    /\ poolGhost.appliedCycle # poolCycles
    /\ IF pendingUpdates = <<>>
       THEN UNCHANGED <<pendingUpdates, rafQueue>>
       ELSE /\ rafQueue' = Append(rafQueue, [kind |-> "apply", updates |-> pendingUpdates,
                                            i |-> 0, cycle |-> poolCycles])
            /\ UNCHANGED pendingUpdates
    /\ poolGhost' = [PoolGhostStep EXCEPT !.appliedCycle = poolCycles]
    /\ UNCHANGED <<markerPool, markerObjects, recycledMarkers, activeMarkers,
                   virtualMarkers, metrics, rafRunning, pendingData, mmTimer,
                   poolInitialized, poolCycles>>

\* MarkerManager.updateMarkers(restaurants): the data is kept and the timer (re)set
MmUpdateMarkersAct ==
    /\ PoolQuiet
    /\ poolCycles < PoolMaxCycles
    /\ \E restaurants \in PoolRestaurantLists :
         /\ pendingData' = SomeData(restaurants)
         /\ poolGhost' = [PoolGhostStep EXCEPT
                            !.passed = restaurants,
                            !.during = \E i \in DOMAIN rafQueue :
                                          rafQueue[i].kind = "budget"]
    /\ mmTimer' = TRUE
    /\ UNCHANGED <<markerPool, markerObjects, recycledMarkers, activeMarkers,
                   virtualMarkers, pendingUpdates, metrics, rafQueue, rafRunning,
                   poolInitialized, poolCycles>>

\* the visibilitychange listener: a visible document with pending data reschedules
MmVisibilityChangeAct ==
    /\ PoolQuiet
    /\ pendingData # NoData
    /\ ~mmTimer
    /\ mmTimer' = TRUE
    /\ poolGhost' = PoolGhostStep
    /\ UNCHANGED <<markerPool, markerObjects, recycledMarkers, activeMarkers,
                   virtualMarkers, pendingUpdates, metrics, rafQueue, rafRunning,
                   pendingData, poolInitialized, poolCycles>>

\* the timer fires: processUpdate() up to its first await. With pendingData null
\* the call throws before the pool is touched, and the finally clause runs.
MmProcessUpdateAct ==
    /\ PoolQuiet
    /\ mmTimer
    /\ mmTimer' = FALSE
    /\ IF pendingData = NoData
       THEN /\ pendingData' = NoData
            /\ poolGhost' = [PoolGhostStep EXCEPT !.passed = <<>>, !.during = FALSE]
            /\ UNCHANGED <<markerPool, markerObjects, recycledMarkers, activeMarkers,
                           virtualMarkers, pendingUpdates, metrics, rafQueue, poolCycles>>
       ELSE /\ poolCycles < PoolMaxCycles
            /\ LET Q == updateVirtualMarkers(PoolRec, pendingData.list)
                   batches == MmSplit(Q.pendingUpdates, <<>>, <<>>, 0)
               IN /\ PoolSet(IF batches = <<>> THEN Q
                             ELSE [Q EXCEPT !.rafQueue =
                                     Append(@, [kind |-> "budget", batches |-> batches,
                                                cycle |-> poolCycles + 1])])
                  /\ pendingData' = IF batches = <<>> THEN NoData ELSE pendingData
                  /\ poolGhost' = [PoolGhostStep EXCEPT
                                     !.unchangedIds = PoolUnchangedIds(pendingData.list),
                                     !.queuedIds = EntryIds(Q.pendingUpdates),
                                     !.skipped = @ \/ poolGhost.appliedCycle # poolCycles,
                                     !.passed = <<>>, !.during = FALSE]
            /\ poolCycles' = poolCycles + 1
    /\ UNCHANGED <<rafRunning, poolInitialized>>

\* the host starts a frame: the callbacks registered so far will run, in order
PoolFrameStart ==
    /\ PoolQuiet
    /\ rafQueue # <<>>
    /\ rafRunning' = rafQueue
    /\ rafQueue' = <<>>
    /\ poolGhost' = PoolGhostStep
    /\ UNCHANGED <<markerPool, markerObjects, recycledMarkers, activeMarkers,
                   virtualMarkers, pendingUpdates, metrics, pendingData, mmTimer,
                   poolInitialized, poolCycles>>

\* a growPool callback that creates all the markers of the run in one frame
PoolGrowCallbackWhole(cb) ==
    /\ PoolSet(PoolCreateN(PoolRec, cb.count))
    /\ poolGhost' = PoolGhostStep
    /\ UNCHANGED pendingData

\* a growPool callback: one batch of markers, then the loop goes on or ends
PoolGrowCallback(cb) ==
    LET batchCount == Min(batchSize, cb.count - cb.i * batchSize)
        Q == PoolCreateN(PoolRec, batchCount)
    IN /\ PoolSet(IF cb.i + 1 < CeilDiv(cb.count, batchSize)
                  THEN [Q EXCEPT !.rafQueue = Append(@, [cb EXCEPT !.i = @ + 1])]
                  ELSE Q)
       /\ poolGhost' = PoolGhostStep
       /\ UNCHANGED pendingData

\* an applyUpdates callback: one batch of updateMarker calls, then the next batch
\* is scheduled or pendingUpdates is cleared
PoolApplyCallback(cb) ==
    LET batchUpdates == SubSeq(cb.updates, cb.i * batchSize + 1,
                               Min((cb.i + 1) * batchSize, Len(cb.updates)))
        Q == PoolApplyBatch(PoolRec, batchUpdates)
    IN /\ PoolSet(IF cb.i + 1 < CeilDiv(Len(cb.updates), batchSize)
                  THEN [Q EXCEPT !.rafQueue = Append(@, [cb EXCEPT !.i = @ + 1])]
                  ELSE [Q EXCEPT !.pendingUpdates = <<>>])
       /\ poolGhost' = [PoolGhostBatch(cb.cycle, PoolRec, Q) EXCEPT
                          !.applied = @ \cup {[id |-> id, cycle |-> cb.cycle] :
                                               id \in EntryIds(batchUpdates)}]
       /\ UNCHANGED pendingData

\* an applyUpdatesWithBudget callback: one batch of updateMapMarker calls, then
\* the next batch is scheduled or processUpdate ends and drops pendingData
MmBudgetCallback(cb) ==
    LET Q == MmApplyBatch(PoolRec, pendingData, Head(cb.batches))
    IN /\ PoolSet(IF Tail(cb.batches) # <<>>
                  THEN [Q EXCEPT !.rafQueue = Append(@, [cb EXCEPT !.batches = Tail(@)])]
                  ELSE Q)
       /\ pendingData' = IF Tail(cb.batches) # <<>> THEN pendingData ELSE NoData
       /\ poolGhost' = PoolGhostBatch(cb.cycle, PoolRec, Q)

\* the frame runs its next callback
PoolRunCallback(kind) ==
    /\ rafRunning # <<>>
    /\ Head(rafRunning).kind = kind
    /\ rafRunning' = Tail(rafRunning)
    /\ UNCHANGED <<mmTimer, poolInitialized, poolCycles>>

PoolRunGrow == PoolRunCallback("grow") /\ PoolGrowCallback(Head(rafRunning))
PoolRunApply == PoolRunCallback("apply") /\ PoolApplyCallback(Head(rafRunning))
MmRunBudget == PoolRunCallback("budget") /\ MmBudgetCallback(Head(rafRunning))

PoolStart ==
    /\ markerPool = {}
    /\ markerObjects = EmptyMap
    /\ recycledMarkers = <<>>
    /\ activeMarkers = EmptyMap
    /\ virtualMarkers = <<>>
    /\ pendingUpdates = <<>>
    /\ metrics = [created |-> 0]
    /\ rafQueue = <<>>
    /\ rafRunning = <<>>
    /\ pendingData = NoData
    /\ mmTimer = FALSE
    /\ poolInitialized = FALSE
    /\ poolCycles = 0
    /\ poolGhost = [batchCycle |-> 0, maxBatchCycle |-> 0,
                    stale |-> FALSE, unchangedIds |-> {}, queuedIds |-> {},
                    touched |-> {}, appliedCycle |-> 0, skipped |-> FALSE,
                    applied |-> {}, passed |-> <<>>, during |-> FALSE]

PoolOthers == <<qtVars, lruVars, vpVars, clVars, cacheVars, ebVars, rqVars, dbVars>>

\* the pool driven through its own methods
PoolNext ==
    \/ PoolInitializeAct /\ UNCHANGED PoolOthers
    \/ PoolUpdateVirtualMarkersAct /\ UNCHANGED PoolOthers
    \/ PoolApplyUpdatesAct /\ UNCHANGED PoolOthers
    \/ PoolFrameStart /\ UNCHANGED PoolOthers
    \/ PoolRunGrow /\ UNCHANGED PoolOthers
    \/ PoolRunApply /\ UNCHANGED PoolOthers

\* the pool offered more entities than it holds markers: four at once, one, none
PoolWideLists ==
    { [i \in 1..n |-> PoolRestaurant(<<"r1", "r2", "r3", "r4">>[i],
                                      [lat |-> 1, reviews |-> 0])] : n \in {0, 1, 4} }

PoolUpdateVirtualMarkersWideAct == PoolUpdateVirtualMarkersOn(PoolWideLists)

PoolWideNext ==
    \/ PoolInitializeAct /\ UNCHANGED PoolOthers
    \/ PoolUpdateVirtualMarkersWideAct /\ UNCHANGED PoolOthers
    \/ PoolApplyUpdatesAct /\ UNCHANGED PoolOthers
    \/ PoolFrameStart /\ UNCHANGED PoolOthers
    \/ PoolRunGrow /\ UNCHANGED PoolOthers
    \/ PoolRunApply /\ UNCHANGED PoolOthers

\* a pool constructed with a poolSize of several batches, the last one partial
PoolGrowSize == 2 * batchSize + 1

PoolInitializeGrowAct == PoolInitializeOn(PoolGrowSize)

PoolGrowNext ==
    \/ PoolInitializeGrowAct /\ UNCHANGED PoolOthers
    \/ PoolUpdateVirtualMarkersAct /\ UNCHANGED PoolOthers
    \/ PoolApplyUpdatesAct /\ UNCHANGED PoolOthers
    \/ PoolFrameStart /\ UNCHANGED PoolOthers
    \/ PoolRunGrow /\ UNCHANGED PoolOthers
    \/ PoolRunApply /\ UNCHANGED PoolOthers

\* the pool driven by MarkerManager, and by a caller of applyUpdates
MmNext ==
    \/ PoolInitializeAct /\ UNCHANGED PoolOthers
    \/ MmUpdateMarkersAct /\ UNCHANGED PoolOthers
    \/ MmVisibilityChangeAct /\ UNCHANGED PoolOthers
    \/ MmProcessUpdateAct /\ UNCHANGED PoolOthers
    \/ PoolApplyUpdatesAct /\ UNCHANGED PoolOthers
    \/ PoolFrameStart /\ UNCHANGED PoolOthers
    \/ PoolRunGrow /\ UNCHANGED PoolOthers
    \/ PoolRunApply /\ UNCHANGED PoolOthers
    \/ MmRunBudget /\ UNCHANGED PoolOthers

(***************************************************************************)
(* SpatialCacheManager (src/unnamed/part_009)                              *)
(***************************************************************************)
\* latitudes and longitudes are counted in ticks, RkDen ticks to the degree
RkDen == 2
scmMinZoom == 10
scmMaxZoom == 19
ScCacheSize == 2
ScMaxCalls == 3
\* config.maxAge and the end of the clock, in ticks
scmMaxAge == 3
ScMaxTime == 3

\* one restaurant that moves (r1), restaurants on the edges of the boxes below
ScRestaurant(id, lat, lng) == [id |-> id, lat |-> lat, lng |-> lng]

ScLists ==
    { << ScRestaurant("r1", 3, 1) >>,
      << ScRestaurant("r1", 0, 1) >>,
      << ScRestaurant("r2", 2, 2), ScRestaurant("r3", 1, 3) >> }

ScBox(south, west) == [south |-> south, west |-> west, north |-> 3, east |-> 3]

\* the viewports offered: boxes one tick apart, at the lowest zoom and one above
ScViewports ==
    { <<ScBox(0, 0), scmMinZoom>>, <<ScBox(1, 0), scmMinZoom>>,
      <<ScBox(2, 0), scmMinZoom>>, <<ScBox(0, 0), scmMinZoom + 1>> }

LruNew(capacity) == [capacity |-> capacity, cache |-> EmptyMap, accessOrder |-> <<>>]

\* LRUCache.get on a cache value: the cache after the call and what it returned
LruGetIn(c, key) ==
    IF key \notin DOMAIN c.cache THEN [c |-> c, hit |-> FALSE]
    ELSE [c |-> [c EXCEPT !.accessOrder = updateAccessOrder(@, key)],
          hit |-> TRUE, value |-> c.cache[key]]

\* LRUCache.set on a cache value
LruSetIn(c, key, value) ==
    LET evict == Cardinality(DOMAIN c.cache) >= c.capacity /\ key \notin DOMAIN c.cache
        shifted == evict /\ c.accessOrder # <<>>
        order1 == IF shifted THEN Tail(c.accessOrder) ELSE c.accessOrder
        cache1 == IF shifted THEN MapRemove(c.cache, Head(c.accessOrder)) ELSE c.cache
    IN [c EXCEPT !.cache = MapPut(cache1, key, value),
                 !.accessOrder = updateAccessOrder(order1, key)]

ScmNew(cacheSize, minZ, maxZ) ==
    [config |-> [cacheSize |-> cacheSize, maxAge |-> scmMaxAge,
                 minZoom |-> minZ, maxZoom |-> maxZ],
     dataCache |-> LruNew(cacheSize),
     regionCache |-> LruNew(cacheSize),
     quadtree |-> [p \in {<<>>} |-> QtNewNode],
     viewportFrequency |-> EmptyMap]

\* generateRegionKey with the sides cut off instead of rounded
generateRegionKeyTruncated(config, bounds, zoom) ==
    LET precision == 10 ^ Min(zoom - config.minZoom, 5)
        trunc(v) == (v * precision) \div RkDen
    IN << trunc(bounds.south), trunc(bounds.west), trunc(bounds.north),
          trunc(bounds.east), zoom >>

\* The key string is modelled by the numbers printed in it: Math.round(v *
\* precision) for each side (printed after the division by precision, which
\* is one-to-one at a given zoom) and the zoom.  Math.round rounds halves up.
generateRegionKey(config, bounds, zoom) ==
    LET precision == 10 ^ Min(zoom - config.minZoom, 5)
        round(v) == (2 * v * precision + RkDen) \div (2 * RkDen)
    IN << round(bounds.south), round(bounds.west), round(bounds.north),
          round(bounds.east), zoom >>

updateViewportFrequency(m, regionKey) ==
    LET frequency == (IF regionKey \in DOMAIN m.viewportFrequency
                      THEN m.viewportFrequency[regionKey] ELSE 0) + 1
    IN [m EXCEPT !.viewportFrequency = MapPut(@, regionKey, frequency)]

\* points.map(point => dataCache.get(point.data.id)).filter(data => data !== null)
RECURSIVE ScmLookup(_, _)
ScmLookup(c, points) ==
    IF points = <<>> THEN [c |-> c, found |-> <<>>]
    ELSE LET g == LruGetIn(c, Head(points).data.id)
             rest == ScmLookup(g.c, Tail(points))
         IN [c |-> rest.c,
             found |-> (IF g.hit THEN <<g.value>> ELSE <<>>) \o rest.found]

ScmFrequency(m, regionKey) ==
    IF regionKey \in DOMAIN m.viewportFrequency THEN m.viewportFrequency[regionKey] ELSE 0

\* needsUpdate that compares the age with config.maxAge whatever the frequency
ScmNeedsUpdateFlat(m, region, now) ==
    IF ~region.hit THEN TRUE
    ELSE now - region.value.timestamp > m.config.maxAge

\* SpatialCacheManager.needsUpdate(region).  age > maxAge / Math.sqrt(frequency + 1)
\* is decided on the squares: both sides are non-negative when age is, and a
\* negative age is never greater.
ScmNeedsUpdate(m, region, now) ==
    IF ~region.hit THEN TRUE
    ELSE LET age == now - region.value.timestamp
             frequency == ScmFrequency(m, region.value.key)
         IN age > 0 /\ age * age * (frequency + 1) > m.config.maxAge * m.config.maxAge

\* the manager after the call, the restaurants, the region and the flag returned
getRestaurantsInViewport(m, bounds, zoom, now) ==
    LET regionKey == generateRegionKey(m.config, bounds, zoom)
        region == LruGetIn(m.regionCache, regionKey)
        m1 == updateViewportFrequency([m EXCEPT !.regionCache = region.c], regionKey)
        sw == latLngToXY(bounds.south, bounds.west)
        ne == latLngToXY(bounds.north, bounds.east)
        queryRange == [x |-> sw.x, y |-> ne.y,
                       width |-> ne.x - sw.x, height |-> sw.y - ne.y]
        points == query(m1.quadtree, <<>>, queryRange)
        looked == ScmLookup(m1.dataCache, points)
        m2 == [m1 EXCEPT !.dataCache = looked.c]
        returned == IF region.hit THEN [hit |-> TRUE, value |-> region.value]
                    ELSE [hit |-> FALSE]
    IN [m |-> m2,
        restaurants |-> looked.found,
        region |-> returned,
        needsUpdate |-> ScmNeedsUpdate(m2, returned, now)]

RECURSIVE ScmAddEach(_, _, _)
ScmAddEach(m, restaurants, now) ==
    IF restaurants = <<>> THEN m
    ELSE LET restaurant == Head(restaurants)
             point == latLngToXY(restaurant.lat, restaurant.lng)
             m1 == [m EXCEPT
                      !.dataCache = LruSetIn(@, restaurant.id, restaurant),
                      !.quadtree = insert(@, <<>>,
                                          [x |-> point.x, y |-> point.y,
                                           data |-> [id |-> restaurant.id,
                                                     timestamp |-> now]]).t]
         IN ScmAddEach(m1, Tail(restaurants), now)

addRestaurants(m, restaurants, bounds, zoom, now) ==
    LET regionKey == generateRegionKey(m.config, bounds, zoom)
        m1 == [m EXCEPT !.regionCache =
                 LruSetIn(@, regionKey, [key |-> regionKey, timestamp |-> now,
                                         count |-> Len(restaurants)])]
    IN ScmAddEach(m1, restaurants, now)

ScmClear(m) ==
    [m EXCEPT !.dataCache = LruNew(m.config.cacheSize),
              !.regionCache = LruNew(m.config.cacheSize),
              !.quadtree = clear(@),
              !.viewportFrequency = EmptyMap]

ScmKeyed(bounds, zoom) ==
    scKeys \cup {[bounds |-> bounds, zoom |-> zoom,
                  key |-> generateRegionKey(scm.config, bounds, zoom)]}

\* addRestaurants(restaurants, bounds, zoom) with its arguments from the given sets
ScmAddRestaurantsOn(lists, viewports) ==
    /\ scCalls < ScMaxCalls
    /\ \E restaurants \in lists, v \in viewports :
         /\ scm' = addRestaurants(scm, restaurants, v[1], v[2], scNow)
         /\ scKeys' = ScmKeyed(v[1], v[2])
         /\ scRet' = [op |-> "addRestaurants", restaurants |-> restaurants,
                      bounds |-> v[1], zoom |-> v[2]]
    /\ scCalls' = scCalls + 1
    /\ UNCHANGED <<scNow, scSeen>>

\* what a call that found its region cached has shown of needsUpdate
ScmObserved(r) ==
    IF r.region.hit
    THEN {[age |-> scNow - r.region.value.timestamp,
           frequency |-> ScmFrequency(r.m, r.region.value.key),
           needsUpdate |-> r.needsUpdate]}
    ELSE {}

ScmGetRestaurantsInViewportOn(viewports) ==
    /\ scCalls < ScMaxCalls
    /\ \E v \in viewports :
         \E r \in {getRestaurantsInViewport(scm, v[1], v[2], scNow)} :
            /\ scm' = r.m
            /\ scKeys' = ScmKeyed(v[1], v[2])
            /\ scRet' = [op |-> "getRestaurantsInViewport", bounds |-> v[1],
                         zoom |-> v[2], restaurants |-> r.restaurants,
                         region |-> r.region, needsUpdate |-> r.needsUpdate,
                         now |-> scNow, prev |-> scRet]
            /\ scSeen' = scSeen \cup ScmObserved(r)
    /\ scCalls' = scCalls + 1
    /\ UNCHANGED scNow

ScmAddRestaurantsAct == ScmAddRestaurantsOn(ScLists, ScViewports)

ScmGetRestaurantsInViewportAct == ScmGetRestaurantsInViewportOn(ScViewports)

ScmClearAct ==
    /\ scm' = ScmClear(scm)
    /\ scRet' = [op |-> "clear"]
    /\ UNCHANGED <<scKeys, scCalls, scNow, scSeen>>

ScmStart ==
    /\ scm = ScmNew(ScCacheSize, scmMinZoom, scmMaxZoom)
    /\ scKeys = {}
    /\ scCalls = 0
    /\ scRet = [op |-> "none"]
    /\ scNow = 0
    /\ scSeen = {}

ScmOthers == <<qtVars, lruVars, vpVars, clVars, poolVars, slOptions, zoomLevelCaches,
               regionAccess, slNow, slLog, slRet, ebVars, rqVars, dbVars>>

ScmNext ==
    \/ ScmAddRestaurantsAct /\ UNCHANGED ScmOthers
    \/ ScmGetRestaurantsInViewportAct /\ UNCHANGED ScmOthers
    \/ ScmClearAct /\ UNCHANGED ScmOthers

\* the calls of the staleness check: one list, two regions, and a clock
ScAgeLists == { << ScRestaurant("r2", 2, 2) >> }
ScAgeViewports == { <<ScBox(0, 0), scmMinZoom>>, <<ScBox(2, 0), scmMinZoom>> }

ScmAgeAddAct == ScmAddRestaurantsOn(ScAgeLists, ScAgeViewports)

ScmAgeGetAct == ScmGetRestaurantsInViewportOn(ScAgeViewports)

ScmTick ==
    /\ scNow < ScMaxTime
    /\ scNow' = scNow + 1
    /\ UNCHANGED <<scm, scKeys, scCalls, scRet, scSeen>>

ScmAgeNext ==
    \/ ScmAgeAddAct /\ UNCHANGED ScmOthers
    \/ ScmAgeGetAct /\ UNCHANGED ScmOthers
    \/ ScmTick /\ UNCHANGED ScmOthers

(***************************************************************************)
(* SmartCacheLayer (src/unnamed/part_005)                                  *)
(***************************************************************************)
popularityWindow == 2
popularityThreshold == 2
SlMaxCalls == 3
SlMaxTime == popularityWindow + 1
maxRegionsPerZoom == ScCacheSize

\* the options a layer is built with: whole bands, and a last band cut short
SlOptionSets ==
    { [minZoom |-> scmMinZoom, maxZoom |-> maxZ, zoomLevelGrouping |-> g] :
        maxZ \in {scmMinZoom + 1, scmMinZoom + 2}, g \in {1, 2} }

SlViewports == { <<ScBox(0, 0), scmMinZoom>>, <<ScBox(0, 0), scmMinZoom + 2>> }
SlRestaurants == << ScRestaurant("r1", 3, 1) >>

\* initializeZoomLevelCaches with the number of groups rounded down
initializeZoomLevelCachesFloor(options) ==
    LET numGroups == (options.maxZoom - options.minZoom + 1)
                       \div options.zoomLevelGrouping
    IN [base \in {options.minZoom + i * options.zoomLevelGrouping :
                    i \in 0..(numGroups - 1)} |->
          ScmNew(maxRegionsPerZoom, base,
                 Min(base + options.zoomLevelGrouping - 1, options.maxZoom))]

initializeZoomLevelCaches(options) ==
    LET numGroups == CeilDiv(options.maxZoom - options.minZoom + 1,
                             options.zoomLevelGrouping)
    IN [base \in {options.minZoom + i * options.zoomLevelGrouping :
                    i \in 0..(numGroups - 1)} |->
          ScmNew(maxRegionsPerZoom, base,
                 Min(base + options.zoomLevelGrouping - 1, options.maxZoom))]

\* the key under which zoomLevelCaches holds the cache, if it holds one
getCacheForZoom(zoom) ==
    LET groupBase == ((zoom - slOptions.minZoom) \div slOptions.zoomLevelGrouping)
                       * slOptions.zoomLevelGrouping + slOptions.minZoom
    IN IF groupBase \in DOMAIN zoomLevelCaches
       THEN [found |-> TRUE, groupBase |-> groupBase]
       ELSE [found |-> FALSE]

RECURSIVE SlShiftOld(_, _)
SlShiftOld(accesses, cutoff) ==
    IF accesses # <<>> /\ Head(accesses).timestamp < cutoff
    THEN SlShiftOld(Tail(accesses), cutoff)
    ELSE accesses

trackRegionAccess(access, regionKey, zoom, now) ==
    LET accesses == Append(IF regionKey \in DOMAIN access THEN access[regionKey]
                           ELSE <<>>,
                           [timestamp |-> now, zoom |-> zoom])
    IN MapPut(access, regionKey, SlShiftOld(accesses, now - popularityWindow))

\* calculatePopularity counting every record kept
calculatePopularityUnfiltered(access, regionKey, now) ==
    Len(IF regionKey \in DOMAIN access THEN access[regionKey] ELSE <<>>)

calculatePopularity(access, regionKey, now) ==
    LET accesses == IF regionKey \in DOMAIN access THEN access[regionKey] ELSE <<>>
        cutoff == now - popularityWindow
    IN Len(SelectSeq(accesses, LAMBDA a : a.timestamp >= cutoff))

\* pruneCache: its first loop
SlPruneAccess(access, now) ==
    LET cutoff == now - popularityWindow
        newAccesses(k) == SelectSeq(access[k], LAMBDA a : a.timestamp >= cutoff)
    IN [k \in {x \in DOMAIN access : newAccesses(x) # <<>>} |-> newAccesses(k)]

SlLogged(regionKey) ==
    MapPut(slLog, regionKey,
           Append(IF regionKey \in DOMAIN slLog THEN slLog[regionKey] ELSE <<>>, slNow))

SlCalls == IF slRet.op = "none" THEN 0 ELSE slRet.calls

\* every detail level keeps the id and the coordinates, the fields modelled here
SlGetRestaurantsAct ==
    /\ SlCalls < SlMaxCalls
    /\ \E v \in SlViewports :
         LET cache == getCacheForZoom(v[2])
         IN IF ~cache.found
            THEN /\ slRet' = [op |-> "getRestaurants", zoom |-> v[2], cache |-> cache,
                              restaurants |-> <<>>, calls |-> SlCalls + 1]
                 /\ UNCHANGED <<zoomLevelCaches, regionAccess, slLog>>
            ELSE LET m == zoomLevelCaches[cache.groupBase]
                     regionKey == generateRegionKey(m.config, v[1], v[2])
                     result == getRestaurantsInViewport(m, v[1], v[2], slNow)
                 IN /\ regionAccess' = trackRegionAccess(regionAccess, regionKey,
                                                         v[2], slNow)
                    /\ slLog' = SlLogged(regionKey)
                    /\ zoomLevelCaches' =
                         [zoomLevelCaches EXCEPT ![cache.groupBase] = result.m]
                    /\ slRet' = [op |-> "getRestaurants", zoom |-> v[2],
                                 cache |-> cache, restaurants |-> result.restaurants,
                                 calls |-> SlCalls + 1]
    /\ UNCHANGED <<slOptions, slNow>>

SlUpdateCacheAct ==
    /\ SlCalls < SlMaxCalls
    /\ \E v \in SlViewports :
         LET cache == getCacheForZoom(v[2])
         IN /\ slRet' = [op |-> "updateCache", zoom |-> v[2], cache |-> cache,
                         calls |-> SlCalls + 1]
            /\ IF ~cache.found
               THEN UNCHANGED <<zoomLevelCaches, regionAccess, slLog>>
               ELSE LET m == zoomLevelCaches[cache.groupBase]
                        regionKey == generateRegionKey(m.config, v[1], v[2])
                    IN /\ zoomLevelCaches' =
                            [zoomLevelCaches EXCEPT ![cache.groupBase] =
                               addRestaurants(m, SlRestaurants, v[1], v[2], slNow)]
                       /\ regionAccess' = trackRegionAccess(regionAccess, regionKey,
                                                            v[2], slNow)
                       /\ slLog' = SlLogged(regionKey)
    /\ UNCHANGED <<slOptions, slNow>>

\* SpatialCacheManager has no getRegions: with at least one band cache, the
\* second loop throws a TypeError on its first iteration and removes nothing
SlPruneCacheAct ==
    /\ regionAccess' = SlPruneAccess(regionAccess, slNow)
    /\ slRet' = [op |-> "pruneCache", threw |-> DOMAIN zoomLevelCaches # {},
                 calls |-> SlCalls]
    /\ UNCHANGED <<slOptions, zoomLevelCaches, slNow, slLog>>

\* the history of accesses is forgotten with the records
SlClearAct ==
    /\ zoomLevelCaches' = [base \in DOMAIN zoomLevelCaches |->
                             ScmClear(zoomLevelCaches[base])]
    /\ regionAccess' = EmptyMap
    /\ slLog' = EmptyMap
    /\ slRet' = [op |-> "clear", calls |-> SlCalls]
    /\ UNCHANGED <<slOptions, slNow>>

SlTick ==
    /\ slNow < SlMaxTime
    /\ slNow' = slNow + 1
    /\ UNCHANGED <<slOptions, zoomLevelCaches, regionAccess, slLog, slRet>>

SlStart ==
    /\ slOptions = [minZoom |-> scmMinZoom, maxZoom |-> scmMinZoom + 2,
                    zoomLevelGrouping |-> 2]
    /\ zoomLevelCaches = initializeZoomLevelCaches(slOptions)
    /\ regionAccess = EmptyMap
    /\ slNow = 0
    /\ slLog = EmptyMap
    /\ slRet = [op |-> "none"]

SlOthers == <<qtVars, lruVars, vpVars, clVars, poolVars, scm, scKeys, scCalls, scRet,
              scNow, scSeen, ebVars, rqVars, dbVars>>

SlNext ==
    \/ SlGetRestaurantsAct /\ UNCHANGED SlOthers
    \/ SlUpdateCacheAct /\ UNCHANGED SlOthers
    \/ SlPruneCacheAct /\ UNCHANGED SlOthers
    \/ SlClearAct /\ UNCHANGED SlOthers
    \/ SlTick /\ UNCHANGED SlOthers

(***************************************************************************)
(* ErrorBoundaryService (src/unnamed/part_002)                             *)
(* One executeWithRetry call is followed from await to await: the          *)
(* operation settling, the retry delay elapsing, the fallback strategy     *)
(* settling.  Registered error handlers are the two of part_002:512-523.   *)
(***************************************************************************)
\* options.maxRetries and options.offlineThreshold
ebMaxRetries == 2
offlineThreshold == 2
EbMaxCalls == 2

EbOperationTypes == {"markerUpdate", "fetchRestaurants"}
EbErrorNames == {"NetworkError", "Error"}

\* the options of a call: MarkerManager.processUpdate passes retryable: false and
\* 'markerUpdate'; other callers pass either flag, and may pass maxRetries
EbCallOptions ==
    {[operationType |-> "markerUpdate", retryable |-> FALSE, maxRetries |-> ebMaxRetries]}
    \cup [operationType : EbOperationTypes, retryable : BOOLEAN,
          maxRetries : {0, ebMaxRetries}]

NoCall == [pc |-> "none"]

EbRec == [offlineMode |-> offlineMode, errorCounts |-> errorCounts]

recordSuccess(E, operationType) ==
    [E EXCEPT !.errorCounts = MapRemove(@, operationType), !.offlineMode = FALSE]

recordError(E, operationType) ==
    LET count == (IF operationType \in DOMAIN E.errorCounts
                  THEN E.errorCounts[operationType] ELSE 0) + 1
    IN [E EXCEPT !.errorCounts = MapPut(@, operationType, count),
                 !.offlineMode = @ \/ count >= offlineThreshold]

\* the test that ends the loop on the attempt count alone
EbGivesUpIgnoringRetryable(call) == call.attempt >= call.maxRetries

\* the test of the catch clause that ends the loop
EbGivesUp(call) == ~call.retryable \/ call.attempt >= call.maxRetries

\* one pass through the head of the loop body, up to its await; `offline` is
\* this.offlineMode as the pass reads it
EbIterate(call, offline) ==
    IF offline /\ call.operationType \in fallbackStrategies
    THEN [call EXCEPT !.pc = "fallback", !.skipped = TRUE]
    ELSE [call EXCEPT !.pc = "operation", !.invocations = @ + 1]

EbFinish(call, outcome, thrown) ==
    /\ ebCall' = NoCall
    /\ ebRet' = [operationType |-> call.operationType, retryable |-> call.retryable,
                 maxRetries |-> call.maxRetries, invocations |-> call.invocations,
                 skipped |-> call.skipped, offlineAtCall |-> call.offlineAtCall,
                 lastError |-> call.lastError,
                 fallback |-> call.operationType \in fallbackStrategies,
                 outcome |-> outcome, thrown |-> thrown]

\* executeWithRetry(operation, options) up to its first await; `sound` tells
\* whether the operation passed is one that succeeds whenever it is invoked
EbBegin(o, sound) ==
    /\ ebCall = NoCall
    /\ ebCall' = EbIterate([operationType |-> o.operationType,
                            retryable |-> o.retryable, maxRetries |-> o.maxRetries,
                            attempt |-> 0, invocations |-> 0, lastError |-> 0,
                            skipped |-> FALSE, offlineAtCall |-> offlineMode,
                            sound |-> sound, pc |-> "none"], offlineMode)
    /\ UNCHANGED <<offlineMode, errorCounts, fallbackStrategies, ebRet>>

\* a call with an operation that may fail
EbExecuteWithRetryAct ==
    /\ ebCalls < EbMaxCalls
    /\ ebCalls' = ebCalls + 1
    /\ \E o \in EbCallOptions : EbBegin(o, FALSE)

\* once the calls that may fail are used up: a call of the given operation
\* type with an operation that succeeds
EbExecuteSoundOf(operationType) ==
    /\ ebCalls = EbMaxCalls
    /\ UNCHANGED ebCalls
    /\ \E o \in {c \in EbCallOptions : c.operationType = operationType} :
          EbBegin(o, TRUE)

EbExecuteSoundAct == \E operationType \in EbOperationTypes : EbExecuteSoundOf(operationType)

\* the operation resolves
EbOperationResolves ==
    /\ ebCall.pc = "operation"
    /\ \E E \in {recordSuccess(EbRec, ebCall.operationType)} :
          /\ offlineMode' = E.offlineMode
          /\ errorCounts' = E.errorCounts
    /\ EbFinish(ebCall, "result", 0)
    /\ UNCHANGED <<fallbackStrategies, ebCalls>>

\* the operation rejects with an error of some name; errors are numbered by the
\* invocation that threw them.  navigator.onLine is read by the NetworkError handler.
EbOperationRejects ==
    /\ ebCall.pc = "operation"
    /\ ~ebCall.sound
    /\ \E name \in EbErrorNames, onLine \in BOOLEAN :
       \E E \in {recordError(EbRec, ebCall.operationType)} :
       \E call \in {[ebCall EXCEPT !.lastError = ebCall.invocations]} :
          /\ errorCounts' = E.errorCounts
          /\ IF EbGivesUp(call)
             THEN /\ offlineMode' = E.offlineMode
                  /\ IF call.operationType \in fallbackStrategies
                     THEN ebCall' = [call EXCEPT !.pc = "fallback"] /\ UNCHANGED ebRet
                     ELSE EbFinish(call, "thrown", call.lastError)
             ELSE /\ offlineMode' = (E.offlineMode \/ (name = "NetworkError" /\ ~onLine))
                  /\ ebCall' = [call EXCEPT !.pc = "delay"]
                  /\ UNCHANGED ebRet
    /\ UNCHANGED <<fallbackStrategies, ebCalls>>

\* the retry delay has elapsed: attempt++ and the next pass of the loop
EbRetryDelayElapses ==
    /\ ebCall.pc = "delay"
    /\ UNCHANGED offlineMode
    /\ ebCall' = EbIterate([ebCall EXCEPT !.attempt = @ + 1], offlineMode)
    /\ UNCHANGED <<errorCounts, fallbackStrategies, ebCalls, ebRet>>

\* the fallback strategy settles: its result is returned, or its error thrown
EbFallbackSettles ==
    /\ ebCall.pc = "fallback"
    /\ \E ok \in BOOLEAN :
          IF ok THEN EbFinish(ebCall, "fallback", 0)
          ELSE EbFinish(ebCall, "thrown", "fallbackError")
    /\ UNCHANGED <<offlineMode, errorCounts, fallbackStrategies, ebCalls>>

EbRegisterFallbackStrategyAct ==
    /\ ebCall = NoCall
    /\ \E operation \in EbOperationTypes \ fallbackStrategies :
          fallbackStrategies' = fallbackStrategies \cup {operation}
    /\ UNCHANGED <<offlineMode, errorCounts, ebCall, ebCalls, ebRet>>

EbStart ==
    /\ offlineMode = FALSE
    /\ errorCounts = EmptyMap
    /\ fallbackStrategies = {"fetchRestaurants"}
    /\ ebCall = NoCall
    /\ ebCalls = 0
    /\ ebRet = [outcome |-> "none"]

EbOthers == <<qtVars, lruVars, vpVars, clVars, poolVars, cacheVars, rqVars, dbVars>>

EbNext ==
    \/ EbExecuteWithRetryAct /\ UNCHANGED EbOthers
    \/ EbOperationResolves /\ UNCHANGED EbOthers
    \/ EbOperationRejects /\ UNCHANGED EbOthers
    \/ EbRetryDelayElapses /\ UNCHANGED EbOthers
    \/ EbFallbackSettles /\ UNCHANGED EbOthers
    \/ EbRegisterFallbackStrategyAct /\ UNCHANGED EbOthers

\* the service called again and again, in the end with operations that succeed
EbRecoverNext ==
    \/ EbNext
    \/ EbExecuteSoundAct /\ UNCHANGED EbOthers

(***************************************************************************)
(* RequestQueue (src/unnamed/part_009)                                     *)
(***************************************************************************)
\* options.maxConcurrent
RqMaxConcurrent == 1
\* number of enqueue calls made
RqMaxRequests == 3

RqPriorities == {1, 2}
RqFingerprints == {"f1", "f2"}

\* getNextItem() returning null
RqNull == 0

RqRec == [queues |-> rqQueues, items |-> rqItems, running |-> rqRunning,
          runningCount |-> rqRunningCount, inFlight |-> rqInFlight,
          started |-> rqStarted]

RqSet(R) ==
    /\ rqQueues' = R.queues
    /\ rqItems' = R.items
    /\ rqRunning' = R.running
    /\ rqRunningCount' = R.runningCount
    /\ rqInFlight' = R.inFlight
    /\ rqStarted' = R.started

\* while (queue.length > 0 && queue[0].cancelled) queue.shift()
RECURSIVE RqDropCancelled(_, _)
RqDropCancelled(items, queue) ==
    IF queue # <<>> /\ items[Head(queue)].cancelled
    THEN RqDropCancelled(items, Tail(queue))
    ELSE queue

\* getNextItem that serves the lowest priority first
RECURSIVE RqNextFromLowest(_, _)
RqNextFromLowest(R, priorities) ==
    IF priorities = {} THEN [R |-> R, item |-> RqNull]
    ELSE LET priority == CHOOSE p \in priorities : \A o \in priorities : o >= p
             queue == RqDropCancelled(R.items, R.queues[priority])
         IN IF queue # <<>>
            THEN [R |-> [R EXCEPT !.queues = IF Len(queue) = 1
                                             THEN MapRemove(@, priority)
                                             ELSE MapPut(@, priority, Tail(queue))],
                  item |-> Head(queue)]
            ELSE RqNextFromLowest([R EXCEPT !.queues[priority] = <<>>],
                                  priorities \ {priority})

\* the loop of getNextItem over the priorities in descending order: cancelled
\* heads are shifted off, the first item left is taken, a queue emptied by
\* taking it is deleted
RECURSIVE RqNextFrom(_, _)
RqNextFrom(R, priorities) ==
    IF priorities = {} THEN [R |-> R, item |-> RqNull]
    ELSE LET priority == CHOOSE p \in priorities : \A o \in priorities : o <= p
             queue == RqDropCancelled(R.items, R.queues[priority])
         IN IF queue # <<>>
            THEN [R |-> [R EXCEPT !.queues = IF Len(queue) = 1
                                             THEN MapRemove(@, priority)
                                             ELSE MapPut(@, priority, Tail(queue))],
                  item |-> Head(queue)]
            ELSE RqNextFrom([R EXCEPT !.queues[priority] = <<>>],
                            priorities \ {priority})

getNextItem(R) == RqNextFrom(R, DOMAIN R.queues)

\* processQueue that starts the next item whatever is running
processQueueUnlimited(R) ==
    LET n == getNextItem(R)
    IN IF n.item = RqNull THEN n.R
       ELSE [n.R EXCEPT !.runningCount = @ + 1,
                        !.running = @ \cup {n.item},
                        !.inFlight = @ \cup {n.item},
                        !.started = Append(@, n.item)]

\* processQueue() up to its await of executeRequest
processQueue(R) ==
    IF R.runningCount >= RqMaxConcurrent THEN R
    ELSE LET n == getNextItem(R)
         IN IF n.item = RqNull THEN n.R
            ELSE [n.R EXCEPT !.runningCount = @ + 1,
                             !.running = @ \cup {n.item},
                             !.inFlight = @ \cup {n.item},
                             !.started = Append(@, n.item)]

enqueue(R, id, priority, fingerprint) ==
    LET item == [priority |-> priority, fingerprint |-> fingerprint,
                 cancelled |-> FALSE, promise |-> "pending"]
        queue == IF priority \in DOMAIN R.queues THEN R.queues[priority] ELSE <<>>
    IN processQueue([R EXCEPT !.items = MapPut(@, id, item),
                              !.queues = MapPut(@, priority, Append(queue, id))])

RqQueued(R) == UNION {Range(R.queues[p]) : p \in DOMAIN R.queues}

cancelRequests(R, fingerprint) ==
    LET hit == {id \in RqQueued(R) \cup R.running : R.items[id].fingerprint = fingerprint}
    IN [R EXCEPT !.items = [id \in DOMAIN @ |->
                              IF id \in hit THEN [@[id] EXCEPT !.cancelled = TRUE]
                              ELSE @[id]]]

\* clear(): every queued and running item is cancelled and forgotten
RqClear(R) ==
    LET hit == RqQueued(R) \cup R.running
    IN [R EXCEPT !.items = [id \in DOMAIN @ |->
                              IF id \in hit THEN [@[id] EXCEPT !.cancelled = TRUE]
                              ELSE @[id]],
                 !.queues = EmptyMap,
                 !.running = {},
                 !.runningCount = 0]

\* the continuation of processQueue after its await: the promise is settled
\* unless the item was cancelled, then the finally clause runs
RqAfterAwait(R, id, ok) ==
    LET settled == IF R.items[id].cancelled THEN R
                   ELSE [R EXCEPT !.items[id].promise =
                                     IF ok THEN "resolved" ELSE "rejected"]
    IN processQueue([settled EXCEPT !.runningCount = @ - 1,
                                    !.running = @ \ {id},
                                    !.inFlight = @ \ {id}])

RqEnqueueAct ==
    /\ Cardinality(DOMAIN rqItems) < RqMaxRequests
    /\ \E priority \in RqPriorities, fingerprint \in RqFingerprints :
         RqSet(enqueue(RqRec, Cardinality(DOMAIN rqItems) + 1, priority, fingerprint))

RqCancelRequestsAct ==
    \E fingerprint \in RqFingerprints : RqSet(cancelRequests(RqRec, fingerprint))

RqClearAct == RqSet(RqClear(RqRec))

\* executeRequest returns or throws; an aborted fetch can only throw
RqRequestSettlesAct ==
    \E id \in rqInFlight :
        \E ok \in IF rqItems[id].cancelled THEN {FALSE} ELSE BOOLEAN :
            RqSet(RqAfterAwait(RqRec, id, ok))

RqStart ==
    /\ rqQueues = EmptyMap
    /\ rqItems = EmptyMap
    /\ rqRunning = {}
    /\ rqRunningCount = 0
    /\ rqInFlight = {}
    /\ rqStarted = <<>>

RqOthers == <<qtVars, lruVars, vpVars, clVars, poolVars, cacheVars, ebVars, dbVars>>

RqNext ==
    \/ RqEnqueueAct /\ UNCHANGED RqOthers
    \/ RqCancelRequestsAct /\ UNCHANGED RqOthers
    \/ RqClearAct /\ UNCHANGED RqOthers
    \/ RqRequestSettlesAct /\ UNCHANGED RqOthers

(***************************************************************************)
(* debounce (src/src/utils/debounce.js)                                    *)
(***************************************************************************)
\* the wait argument, in clock ticks
DbWait == 2
DbMaxCalls == 3
DbMaxTime == 6

\* argument lists the debounced function is called with
DbArgs == {"a", "b"}

DbNoTimeout == [armed |-> FALSE]

\* a call of the debounced function: clearTimeout(timeout) drops the timer of
\* an earlier call, setTimeout arms the one of this call; the promise returned
\* is resolved only from this call's timer callback
DbCallAct ==
    /\ Len(dbPromises) < DbMaxCalls
    /\ dbNow + DbWait <= DbMaxTime
    /\ dbTimeout.armed => dbNow < dbTimeout.due
    /\ \E args \in DbArgs :
         dbPromises' = Append(dbPromises, [args |-> args, at |-> dbNow,
                                           state |-> "pending"])
    /\ dbTimeout' = [armed |-> TRUE, due |-> dbNow + DbWait, call |-> Len(dbPromises) + 1]
    /\ UNCHANGED <<dbNow, dbInvoked, dbRunning>>

\* the timer callback up to its await: func.apply(context, args)
DbTimerFires ==
    /\ dbTimeout.armed
    /\ dbNow = dbTimeout.due
    /\ dbInvoked' = Append(dbInvoked, [call |-> dbTimeout.call,
                                       args |-> dbPromises[dbTimeout.call].args,
                                       at |-> dbNow])
    /\ dbRunning' = dbRunning \cup {dbTimeout.call}
    /\ dbTimeout' = DbNoTimeout
    /\ UNCHANGED <<dbNow, dbPromises>>

\* func returns or throws: the promise is resolved with the result or with []
DbFuncSettles ==
    \E call \in dbRunning, ok \in BOOLEAN :
        /\ dbPromises' = [dbPromises EXCEPT ![call] =
                            [@ EXCEPT !.state = "resolved"] @@
                            [value |-> IF ok THEN "result" ELSE "[]"]]
        /\ dbRunning' = dbRunning \ {call}
        /\ UNCHANGED <<dbNow, dbTimeout, dbInvoked>>

\* time passes, but not beyond the moment a timer is due
DbTick ==
    /\ dbNow < DbMaxTime
    /\ dbTimeout.armed => dbNow < dbTimeout.due
    /\ dbNow' = dbNow + 1
    /\ UNCHANGED <<dbTimeout, dbPromises, dbInvoked, dbRunning>>

DbStart ==
    /\ dbNow = 0
    /\ dbTimeout = DbNoTimeout
    /\ dbPromises = <<>>
    /\ dbInvoked = <<>>
    /\ dbRunning = {}

DbOthers == <<qtVars, lruVars, vpVars, clVars, poolVars, cacheVars, ebVars, rqVars>>

DbNext ==
    \/ DbCallAct /\ UNCHANGED DbOthers
    \/ DbTimerFires /\ UNCHANGED DbOthers
    \/ DbFuncSettles /\ UNCHANGED DbOthers
    \/ DbTick /\ UNCHANGED DbOthers

(***************************************************************************)
(* Specifications                                                          *)
(***************************************************************************)
Init == QtStart /\ LruStart /\ lruCapacity = 1 /\ VpStart /\ ClStart /\ PoolStart
          /\ ScmStart /\ SlStart /\ EbStart /\ RqStart /\ DbStart
SpecQuadTree == Init /\ [][QtNext]_vars

LruInit == QtStart /\ LruStart /\ lruCapacity \in LruCapacities /\ VpStart /\ ClStart /\ PoolStart
          /\ ScmStart /\ SlStart /\ EbStart /\ RqStart /\ DbStart
SpecLRU == LruInit /\ [][LruNext]_vars

SpecViewport == Init /\ [][VpNext]_vars

SpecCluster == Init /\ [][ClNext]_vars

SpecPool == Init /\ [][PoolNext]_vars
SpecMarkerManager == Init /\ [][MmNext]_vars
SpecPoolWide == Init /\ [][PoolWideNext]_vars
SpecPoolGrow == Init /\ [][PoolGrowNext]_vars

\* The pool with the scheduling its callers and the host provide: applyUpdates
\* is called for a snapshot that has not had its call, the host starts a frame
\* when callbacks are registered, and a started frame runs its callbacks.
SpecPoolFair ==
    /\ Init /\ [][PoolNext]_vars
    /\ WF_vars(PoolApplyUpdatesAct /\ UNCHANGED PoolOthers)
    /\ WF_vars(PoolFrameStart /\ UNCHANGED PoolOthers)
    /\ WF_vars(PoolRunGrow /\ UNCHANGED PoolOthers)
    /\ WF_vars(PoolRunApply /\ UNCHANGED PoolOthers)

SpecErrorBoundary == Init /\ [][EbNext]_vars

\* Every await of a call ends, and callers keep calling executeWithRetry for
\* every operation type, from some call on with operations that succeed.
SpecErrorBoundaryRecover ==
    /\ Init /\ [][EbRecoverNext]_vars
    /\ WF_vars(EbExecuteWithRetryAct /\ UNCHANGED EbOthers)
    /\ WF_vars(EbOperationResolves /\ UNCHANGED EbOthers)
    /\ WF_vars(EbRetryDelayElapses /\ UNCHANGED EbOthers)
    /\ WF_vars(EbFallbackSettles /\ UNCHANGED EbOthers)
    /\ \A operationType \in EbOperationTypes :
          SF_vars(EbExecuteSoundOf(operationType) /\ UNCHANGED EbOthers)

SpecRequestQueue == Init /\ [][RqNext]_vars

\* every fetch in flight completes: the server answers, or the abort rejects it
SpecRequestQueueFair ==
    Init /\ [][RqNext]_vars /\ WF_vars(RqRequestSettlesAct /\ UNCHANGED RqOthers)

SpecDebounce == Init /\ [][DbNext]_vars

\* time passes, a due timer fires, and func returns or throws
SpecDebounceFair ==
    /\ Init /\ [][DbNext]_vars
    /\ WF_vars(DbTick /\ UNCHANGED DbOthers)
    /\ WF_vars(DbTimerFires /\ UNCHANGED DbOthers)
    /\ WF_vars(DbFuncSettles /\ UNCHANGED DbOthers)

SpecSpatialCache == Init /\ [][ScmNext]_vars

SpecSpatialAge == Init /\ [][ScmAgeNext]_vars

SlInit ==
    /\ QtStart /\ LruStart /\ lruCapacity = 1 /\ VpStart /\ ClStart /\ PoolStart
    /\ ScmStart /\ EbStart /\ RqStart /\ DbStart
    /\ slOptions \in SlOptionSets
    /\ zoomLevelCaches = initializeZoomLevelCaches(slOptions)
    /\ regionAccess = EmptyMap
    /\ slNow = 0
    /\ slLog = EmptyMap
    /\ slRet = [op |-> "none"]
SpecSmartCache == SlInit /\ [][SlNext]_vars

(***************************************************************************)
(* Claims                                                                  *)
(***************************************************************************)
\* C1: query(R) returns every successfully inserted point whose coordinates
\* lie in R = [x, x + width) x [y, y + height), each once, and no point
\* outside R.
C1_QueryContainment ==
    qtRet.op = "query" =>
        LET R == qtRet.range
            inside(p) == /\ R.x <= p.x /\ p.x < R.x + R.width
                         /\ R.y <= p.y /\ p.y < R.y + R.height
        IN /\ \A p \in Range(qtInserted) :
                inside(p) => SeqFilterCount(qtRet.found, {p}) = 1
           /\ \A p \in Range(qtRet.found) : p \in Range(qtInserted) /\ inside(p)

\* a query over a subdivided tree that returns some points and leaves others out
C1_Witness ==
    /\ qtRet.op = "query"
    /\ qt[<<>>].divided
    /\ qtRet.found # <<>>
    /\ Len(qtRet.found) < Len(qtInserted)

LruEvicting == lruRet.op = "set" /\ lruRet.evicted # NoKey

\* C2: the number of stored keys never exceeds the capacity, and a key evicted
\* by set of a new key is the stored key whose last get or set is the oldest.
C2_BoundAndLruEviction ==
    /\ Cardinality(DOMAIN lruCache) <= lruCapacity
    /\ LruEvicting =>
         /\ lruRet.evicted \notin DOMAIN lruCache
         /\ \A k \in DOMAIN lruCache \ {lruRet.key} :
              IndexOf(lruTouched, lruRet.evicted) < IndexOf(lruTouched, k)

\* an eviction from a full cache of capacity 2, outside the example scenario
C2_Witness ==
    /\ LruEvicting
    /\ lruCapacity = 2
    /\ Cardinality(DOMAIN lruCache) = 2
    /\ lruScen = 0 - 1

LruMovedToEnd ==
    (lruRet.op = "set" \/ (lruRet.op = "get" /\ lruRet.hit)) =>
        /\ lruAccessOrder # <<>>
        /\ lruAccessOrder[Len(lruAccessOrder)] = lruRet.key

\* the key touched most recently before the evicting set is not the evicted one
LruJustAccessedKept ==
    LruEvicting =>
        /\ Len(lruTouched) >= 2
        /\ lruTouched[Len(lruTouched) - 1] # lruRet.evicted

LruScenarioEvictsB ==
    (lruCapacity = 2 /\ lruScen = Len(LruScenario)) =>
        lruRet.evicted = "B" /\ "A" \notin DOMAIN lruCache

\* C3 as stated: every get or set moves the key to the most-recently-used end,
\* a key that was just accessed is not the next key evicted (for every
\* capacity), and the scenario evicts B.
C3_Original == LruMovedToEnd /\ LruJustAccessedKept /\ LruScenarioEvictsB

\* C3 amended: every set, and every get of a stored key, moves the key to the
\* most-recently-used end; when the capacity is at least 2 the key accessed
\* last is not the next key evicted; the scenario evicts B.
C3_Amended ==
    /\ LruMovedToEnd
    /\ lruCapacity >= 2 => LruJustAccessedKept
    /\ LruScenarioEvictsB

\* the scenario has run to its end with capacity 2
C3_Witness == lruCapacity = 2 /\ lruScen = Len(LruScenario) /\ LruEvicting

ClAllMutuallyNear ==
    \A a, b \in Range(clRet.points) :
        LET ca == latLngToXY(a.lat, a.lng)
            cb == latLngToXY(b.lat, b.lng)
        IN /\ ca.x - cb.x < clRet.radius /\ cb.x - ca.x < clRet.radius
           /\ ca.y - cb.y < clRet.radius /\ cb.y - ca.y < clRet.radius

\* C4: below the zoom threshold, n points all within the radius of each other
\* give exactly one cluster holding all n of them when n >= minClusterSize,
\* and only singletons when n < minClusterSize.
C4_OneClusterOfAll ==
    (clRet.zoom < zoomThreshold /\ clRet.points # <<>> /\ ClAllMutuallyNear) =>
        IF Len(clRet.points) >= minClusterSize
        THEN /\ Len(clRet.clusters) = 1
             /\ clRet.clusters[1].isCluster
             /\ clRet.clusters[1].count = Len(clRet.points)
             /\ Range(clRet.clusters[1].points) = Range(clRet.points)
        ELSE \A i \in DOMAIN clRet.clusters : ~clRet.clusters[i].isCluster

\* C5: the number of active markers plus the number of recycled markers
\* equals the total pool size.
C5_PoolConservation ==
    Cardinality(DOMAIN activeMarkers) + Len(recycledMarkers) = Cardinality(markerPool)

\* C6: an entity whose position and props are the same in two consecutive
\* updateVirtualMarkers calls gets no pending update from the second call, and
\* a batch of the second cycle leaves the marker bound to it (its state and its
\* element) as it was.
C6_DiffMinimality ==
    /\ poolGhost.unchangedIds \cap poolGhost.queuedIds = {}
    /\ poolGhost.touched = {}

\* C9: no batch of an update cycle is applied after a batch of a newer cycle
\* has been applied: the batches of two cycles do not interleave.
C9_NoInterleaving == ~poolGhost.stale

\* C10: when applyUpdates was called for every snapshot and every scheduled
\* batch has run, the active markers are exactly the entities of the latest
\* snapshot, each showing that snapshot's position and props.
C10_FinalStateIsLatestSnapshot ==
    (/\ rafQueue = <<>> /\ rafRunning = <<>>
     /\ poolCycles > 0 /\ poolGhost.appliedCycle = poolCycles
     /\ ~poolGhost.skipped) =>
        /\ DOMAIN activeMarkers = EntryIds(virtualMarkers)
        /\ \A id \in DOMAIN activeMarkers \cap EntryIds(virtualMarkers) :
             LET state == markerObjects[activeMarkers[id]].state
                 vm == EntryGet(virtualMarkers, id)
             IN state.visible /\ state.position = vm.position /\ state.props = vm.props

\* C12: insert of a point outside the root bounds returns false and leaves
\* the tree as it was, and no query returns a point outside the root bounds.
C12_InsertOutsideRejected ==
    [][LET outside(p) == \/ p.x < QtRootBounds.x
                         \/ p.x >= QtRootBounds.x + QtRootBounds.width
                         \/ p.y < QtRootBounds.y
                         \/ p.y >= QtRootBounds.y + QtRootBounds.height
       IN /\ (qtRet'.op = "insert" /\ outside(qtRet'.point)) =>
                (~qtRet'.ok /\ qt' = qt /\ qtInserted' = qtInserted)
          /\ qtRet'.op = "query" =>
                \A i \in DOMAIN qtRet'.found : ~outside(qtRet'.found[i])]_vars

\* an insert outside the root bounds was refused by a tree that holds points
\* in its children
C12_Witness ==
    /\ qtRet.op = "insert" /\ ~qtRet.ok
    /\ qt[<<>>].divided
    /\ qtInserted # <<>>

\* C11 (as stated): two bounding boxes at the same zoom whose south, west,
\* north and east each differ by less than the zoom's quantization step
\* 1 / 10^min(zoom - minZoom, 5) get the same region key.
C11_CloseBoxesSameKey ==
    \A a, b \in scKeys :
        LET precision == 10 ^ Min(a.zoom - scmMinZoom, 5)
            close(u, v) == (IF u > v THEN u - v ELSE v - u) * precision < RkDen
        IN (/\ a.zoom = b.zoom
            /\ close(a.bounds.south, b.bounds.south)
            /\ close(a.bounds.west, b.bounds.west)
            /\ close(a.bounds.north, b.bounds.north)
            /\ close(a.bounds.east, b.bounds.east)) => a.key = b.key

\* C11 (amended): two bounding boxes at the same zoom get the same region key
\* exactly when each of their south, west, north and east lies in the same
\* rounding cell [(k - 1/2) * step, (k + 1/2) * step) of the zoom's step.
C11_SameCellSameKey ==
    \A a, b \in scKeys :
        LET precision == 10 ^ Min(a.zoom - scmMinZoom, 5)
            inCell(v, k) == /\ (2 * k - 1) * RkDen <= 2 * v * precision
                            /\ 2 * v * precision < (2 * k + 1) * RkDen
            sameCell(u, v) == \E k \in (0 - 100)..100 : inCell(u, k) /\ inCell(v, k)
        IN a.zoom = b.zoom =>
             ((a.key = b.key) <=>
                (/\ sameCell(a.bounds.south, b.bounds.south)
                 /\ sameCell(a.bounds.west, b.bounds.west)
                 /\ sameCell(a.bounds.north, b.bounds.north)
                 /\ sameCell(a.bounds.east, b.bounds.east)))

\* two different boxes of the same zoom were keyed and got the same key
C11_Witness ==
    \E a, b \in scKeys : a.zoom = b.zoom /\ a.bounds # b.bounds /\ a.key = b.key

\* C13: getRestaurantsInViewport called with the rectangle and zoom of the
\* addRestaurants(R, bounds, zoom) call just before it (R no longer than the
\* cache size) returns every restaurant of R whose coordinates lie within
\* bounds, and returns no restaurant whose coordinates lie outside bounds.
C13_AddThenQuerySameRectangle ==
    LET within(r, b) == /\ b.south <= r.lat /\ r.lat <= b.north
                        /\ b.west <= r.lng /\ r.lng <= b.east
    IN (/\ scRet.op = "getRestaurantsInViewport"
        /\ scRet.prev.op = "addRestaurants"
        /\ scRet.prev.bounds = scRet.bounds
        /\ scRet.prev.zoom = scRet.zoom
        /\ Len(scRet.prev.restaurants) <= scm.config.cacheSize) =>
          /\ \A i \in DOMAIN scRet.prev.restaurants :
                within(scRet.prev.restaurants[i], scRet.bounds) =>
                  scRet.prev.restaurants[i] \in Range(scRet.restaurants)
          /\ \A j \in DOMAIN scRet.restaurants :
                within(scRet.restaurants[j], scRet.bounds)

\* C14: for every zoom z with minZoom <= z <= maxZoom, getCacheForZoom(z)
\* returns the cache of the fixed-width band that contains z; zooms of the
\* same band get the same cache, zooms of different bands get different
\* caches, and no in-range zoom is left without a cache.
C14_BandCache ==
    LET g == slOptions.zoomLevelGrouping
        lo(k) == slOptions.minZoom + k * g
        hi(k) == IF lo(k) + g - 1 < slOptions.maxZoom THEN lo(k) + g - 1
                 ELSE slOptions.maxZoom
        band(z) == CHOOSE k \in 0..(slOptions.maxZoom - slOptions.minZoom) :
                     lo(k) <= z /\ z <= hi(k)
        zooms == slOptions.minZoom..slOptions.maxZoom
    IN /\ \A z \in zooms :
            /\ getCacheForZoom(z).found
            /\ zoomLevelCaches[getCacheForZoom(z).groupBase].config.minZoom = lo(band(z))
            /\ zoomLevelCaches[getCacheForZoom(z).groupBase].config.maxZoom = hi(band(z))
       /\ \A y, z \in zooms :
            (band(y) = band(z)) <=>
              (getCacheForZoom(y).groupBase = getCacheForZoom(z).groupBase)

\* a lookup at the top zoom of a layer whose last band is cut short found a cache
C14_Witness ==
    /\ slRet.op = "getRestaurants"
    /\ slRet.cache.found
    /\ slRet.zoom = slOptions.maxZoom
    /\ (slOptions.maxZoom - slOptions.minZoom + 1) % slOptions.zoomLevelGrouping # 0

\* C15: after pruneCache no zoom-band cache holds a region whose popularity
\* is below popularityThreshold, whether or not a cache is at its capacity.
C15_PruneRemovesUnpopular ==
    slRet.op = "pruneCache" =>
      \A base \in DOMAIN zoomLevelCaches :
        \A key \in DOMAIN zoomLevelCaches[base].regionCache.cache :
          calculatePopularity(regionAccess, key, slNow) >= popularityThreshold

\* C16: calculatePopularity(key) is the number of accesses ever recorded for
\* the key whose timestamp is no older than popularityWindow before now.
C16_PopularityCountsWindow ==
    /\ DOMAIN regionAccess \subseteq DOMAIN slLog
    /\ \A key \in DOMAIN slLog :
         calculatePopularity(regionAccess, key, slNow) =
           Cardinality({i \in DOMAIN slLog[key] :
                          slLog[key][i] >= slNow - popularityWindow})

\* a key has an access older than the window and is still popular
C16_Witness ==
    \E key \in DOMAIN slLog :
        /\ \E i \in DOMAIN slLog[key] : slLog[key][i] < slNow - popularityWindow
        /\ calculatePopularity(regionAccess, key, slNow) >= 1

\* C17: at a zoom of zoomThreshold or more, calculateClusters returns one
\* entry per input point, with the point's id, isCluster false and the point
\* as its only member, and returns no transitions.
C17_NoClusteringAtHighZoom ==
    clRet.zoom >= zoomThreshold =>
      /\ Len(clRet.clusters) = Len(clRet.points)
      /\ \A i \in DOMAIN clRet.points :
            \E j \in DOMAIN clRet.clusters :
              /\ clRet.clusters[j].id = clRet.points[i].id
              /\ ~clRet.clusters[j].isCluster
              /\ clRet.clusters[j].points = << clRet.points[i] >>
      /\ clRet.transitions = <<>>

\* a pass at the threshold zoom over points that lie within the radius of one
\* another
C17_Witness ==
    /\ clRet.zoom >= zoomThreshold
    /\ Len(clRet.points) >= minClusterSize
    /\ \E i, j \in DOMAIN clRet.points :
         /\ i # j
         /\ clRet.points[i].lat = clRet.points[j].lat
         /\ clRet.points[i].lng - clRet.points[j].lng \in {0 - 1, 1}

VpCleanupBounds(preload) ==
    [south |-> preload.south - cleanupMargin, north |-> preload.north + cleanupMargin,
     west |-> preload.west - cleanupMargin, east |-> preload.east + cleanupMargin]

RECURSIVE MmBatchTime(_)
MmBatchTime(batch) ==
    IF batch = <<>> THEN 0 ELSE estimateUpdateTime(Head(batch)) + MmBatchTime(Tail(batch))

RECURSIVE MmConcat(_)
MmConcat(batches) ==
    IF batches = <<>> THEN <<>> ELSE Head(batches) \o MmConcat(Tail(batches))

MmBudgetRuns(queue) == {queue[i] : i \in {j \in DOMAIN queue : queue[j].kind = "budget"}}

PoolGrowRuns(queue) == {queue[i] : i \in {j \in DOMAIN queue : queue[j].kind = "grow"}}

\* the entity for which the step calls acquireMarker, when it calls it once
PoolAcquiring ==
    IF /\ rafRunning # <<>>
       /\ Head(rafRunning).kind = "apply"
    THEN LET cb == Head(rafRunning)
             batchUpdates == SubSeq(cb.updates, cb.i * batchSize + 1,
                                    Min((cb.i + 1) * batchSize, Len(cb.updates)))
         IN IF Len(batchUpdates) = 1 /\ batchUpdates[1].id \notin DOMAIN activeMarkers
            THEN {batchUpdates[1].id} ELSE {}
    ELSE {}

C25_AcquireRule ==
    [][\A id \in PoolAcquiring :
         rafRunning' = Tail(rafRunning) =>
           LET active == Cardinality(DOMAIN activeMarkers)
               size == Cardinality(markerPool)
               scheduled == PoolGrowRuns(rafQueue') \ PoolGrowRuns(rafQueue)
           IN /\ recycledMarkers # <<>> =>
                   /\ activeMarkers'[id] \in Range(recycledMarkers)
                   /\ activeMarkers'[id] \notin Range(recycledMarkers')
                   /\ markerPool' = markerPool
              /\ markerPool' # markerPool => recycledMarkers = <<>>
              /\ \A g \in scheduled :
                   /\ recycledMarkers = <<>>
                   /\ active * recycleThresholdDen
                        >= size * (recycleThresholdDen - recycleThresholdNum)
                   /\ g.count * growthFactorDen
                        <= size * (growthFactorNum - growthFactorDen)
                   /\ (g.count + 1) * growthFactorDen
                        > size * (growthFactorNum - growthFactorDen)]_vars

\* a marker was created on demand while growth by one marker was scheduled
\* (a pool of two fully bound), after earlier updates had reused recycled markers
C25_Witness ==
    /\ Cardinality(markerPool) = 3
    /\ poolInitialized
    /\ \E g \in PoolGrowRuns(rafQueue) : g.count = 1
    /\ Cardinality(DOMAIN activeMarkers) = 4

(***************************************************************************)
(* C26 as stated: executeWithRetry invokes the operation at most           *)
(* maxRetries + 1 times, and exactly once when retryable is false; when    *)
(* the operation has not succeeded it returns the fallback result if a     *)
(* fallback strategy is registered for the operation type and otherwise    *)
(* rethrows the last error.                                                *)
(***************************************************************************)
EbEnded == ebRet.outcome # "none"

EbRethrowsLast ==
    /\ ebRet.outcome = "thrown"
    /\ ebRet.invocations >= 1
    /\ ebRet.thrown = ebRet.invocations
    /\ ebRet.lastError = ebRet.invocations

C26_Original ==
    EbEnded =>
       /\ ebRet.invocations <= ebRet.maxRetries + 1
       /\ ~ebRet.retryable => ebRet.invocations = 1
       /\ ebRet.outcome # "result" =>
             IF ebRet.fallback THEN ebRet.outcome = "fallback" ELSE EbRethrowsLast

(***************************************************************************)
(* C26 amended: executeWithRetry invokes the operation at most             *)
(* maxRetries + 1 times.  When retryable is false it invokes it exactly    *)
(* once, except that it does not invoke it at all when the service is in   *)
(* offline mode and a fallback strategy is registered for the operation    *)
(* type; MarkerManager's marker update, whose type has no fallback         *)
(* strategy, is invoked exactly once.  When the operation has not          *)
(* succeeded, the call ends as the fallback strategy ends (with its        *)
(* result, or with the error it throws) if one is registered for the       *)
(* operation type, and otherwise rethrows the last error.                  *)
(***************************************************************************)
C26_Amended ==
    EbEnded =>
       /\ ebRet.invocations <= ebRet.maxRetries + 1
       /\ ~ebRet.retryable =>
             ebRet.invocations = (IF ebRet.offlineAtCall /\ ebRet.fallback THEN 0 ELSE 1)
       /\ ebRet.outcome # "result" =>
             IF ebRet.fallback
             THEN \/ ebRet.outcome = "fallback"
                  \/ ebRet.outcome = "thrown" /\ ebRet.thrown = "fallbackError"
             ELSE EbRethrowsLast

\* a marker update (not retryable, no fallback strategy) was invoked once in
\* offline mode and its error rethrown
C26_Witness ==
    /\ EbEnded
    /\ ebRet.operationType = "markerUpdate"
    /\ ~ebRet.retryable
    /\ ~ebRet.fallback
    /\ ebRet.offlineAtCall
    /\ ebRet.invocations = 1
    /\ EbRethrowsLast

(***************************************************************************)
(* C27: below the zoom threshold, every point passed to calculateClusters  *)
(* is a member of exactly one entry of the result (a cluster or a          *)
(* singleton): no point is missing and no point is in two entries.         *)
(***************************************************************************)
ClEntriesOf(point) ==
    {i \in DOMAIN clRet.clusters : point \in Range(clRet.clusters[i].points)}

C27_EveryPointInOneEntry ==
    (clRet.zoom < zoomThreshold) =>
        \A point \in Range(clRet.points) : Cardinality(ClEntriesOf(point)) = 1

(***************************************************************************)
(* C28: no pooled marker is in the active set and the recycled set at the  *)
(* same time, and no pooled marker is bound to two different entity ids at *)
(* once.                                                                   *)
(***************************************************************************)
C28_ActiveRecycledDisjoint ==
    /\ \A id \in DOMAIN activeMarkers : activeMarkers[id] \notin Range(recycledMarkers)
    /\ \A a, b \in DOMAIN activeMarkers : a # b => activeMarkers[a] # activeMarkers[b]

(***************************************************************************)
(* C29: an update queued by updateVirtualMarkers is eventually applied to  *)
(* a marker (by updateMarker, in a batch of the applyUpdates run of its    *)
(* cycle), whatever calls and frames come in between.                      *)
(***************************************************************************)
C29_QueuedEventuallyApplied ==
    \A id \in Range(PoolEntities), cycle \in 1..PoolMaxCycles :
        (id \in EntryIds(pendingUpdates) /\ poolCycles = cycle)
            ~> ([id |-> id, cycle |-> cycle] \in poolGhost.applied)

QtStoredAt(pt) ==
    {<<p, i>> \in QtReachable(qt, <<>>) \X (1..QtMaxInserts) :
        i \in DOMAIN qt[p].points /\ qt[p].points[i] = pt}

C31_StoredEqualsInserted ==
    /\ \A pt \in Range(qtInserted) : Cardinality(QtStoredAt(pt)) = 1
    /\ \A p \in QtReachable(qt, <<>>) : Range(qt[p].points) \subseteq Range(qtInserted)

\* two leaves were split on the way and the points are still there
C31_Witness ==
    /\ Len(qtInserted) >= 2
    /\ \E p \in QtReachable(qt, <<>>) : Len(p) = QtMaxDepth /\ Len(qt[p].points) >= 2

(***************************************************************************)
(* C32: each stored point lies within the bounds of the node storing it,   *)
(* a divided node stores no points, and a leaf above maxDepth holds at     *)
(* most capacity points.                                                   *)
(***************************************************************************)
C32_NodeShape ==
    \A p \in QtReachable(qt, <<>>) :
        /\ \A pt \in Range(qt[p].points) : contains(QtBounds(p), pt)
        /\ qt[p].divided => qt[p].points = <<>>
        /\ (~qt[p].divided /\ Len(p) < QtMaxDepth) => Len(qt[p].points) <= QtCapacity

\* a full leaf below the root next to a divided node
C32_Witness ==
    /\ qt[<<>>].divided
    /\ \E p \in QtReachable(qt, <<>>) :
         /\ Len(p) \in 1..(QtMaxDepth - 1)
         /\ ~qt[p].divided
         /\ Len(qt[p].points) = QtCapacity

(***************************************************************************)
(* C33: inserts of points with identical coordinates return, no node lies  *)
(* deeper than maxDepth, and more than capacity coincident points are all  *)
(* held by one leaf at depth maxDepth.                                     *)
(***************************************************************************)
QtCoincident(pt) == {q \in Range(qtInserted) : q.x = pt.x /\ q.y = pt.y}

C33_CoincidentAtMaxDepth ==
    /\ \A p \in DOMAIN qt : Len(p) <= QtMaxDepth
    /\ qtRet.op = "insert" /\ contains(QtRootBounds, qtRet.point) => qtRet.ok
    /\ \A pt \in Range(qtInserted) :
         Cardinality(QtCoincident(pt)) > QtCapacity
            => \E p \in QtReachable(qt, <<>>) :
                  /\ Len(p) = QtMaxDepth
                  /\ ~qt[p].divided
                  /\ QtCoincident(pt) \subseteq Range(qt[p].points)

\* as many coincident points as calls allow, the last one just inserted
C33_Witness ==
    /\ qtRet.op = "insert" /\ qtRet.ok
    /\ Cardinality(QtCoincident(qtRet.point)) = QtMaxInserts
    /\ QtMaxInserts > QtCapacity

(***************************************************************************)
(* C34: the list returned by getRestaurantsInViewport holds each           *)
(* restaurant id at most once, however often the restaurant was added.     *)
(***************************************************************************)
C34_EachIdAtMostOnce ==
    scRet.op = "getRestaurantsInViewport"
        => \A i, j \in DOMAIN scRet.restaurants :
              scRet.restaurants[i].id = scRet.restaurants[j].id => i = j

(***************************************************************************)
(* C35: a growPool run creates at most batchSize markers per frame, a full *)
(* batch in every frame but its last, and count markers when it ends; its  *)
(* batch index stays below the number of batches, so it ends.  A fresh     *)
(* pool whose initialize() has ended and that got no other call holds      *)
(* poolSize markers, all recycled and none active.                         *)
(***************************************************************************)
PoolGrowPending == PoolGrowRuns(rafQueue) \cup PoolGrowRuns(rafRunning)

PoolGrowTick ==
    /\ rafRunning # <<>>
    /\ Head(rafRunning).kind = "grow"
    /\ rafRunning' = Tail(rafRunning)

C35_GrowPoolExact ==
    /\ [](\A cb \in PoolGrowPending : cb.i * batchSize < cb.count)
    /\ []((poolInitialized /\ poolCycles = 0 /\ PoolGrowPending = {})
            => /\ Cardinality(markerPool) = PoolGrowSize
               /\ Range(recycledMarkers) = markerPool
               /\ DOMAIN activeMarkers = {})
    /\ [][PoolGrowTick =>
            LET cb == Head(rafRunning)
                made == metrics'.created - metrics.created
            IN /\ made = Cardinality(markerPool' \ markerPool)
               /\ made <= batchSize
               /\ IF [cb EXCEPT !.i = @ + 1] \in PoolGrowRuns(rafQueue')
                  THEN made = batchSize
                  ELSE cb.i * batchSize + made = cb.count]_vars

\* initialize() has ended after its third frame, the last batch a partial one
C35_Witness ==
    /\ poolInitialized /\ poolCycles = 0 /\ PoolGrowPending = {}
    /\ metrics.created = PoolGrowSize
    /\ PoolGrowSize > 2 * batchSize

(***************************************************************************)
(* C36: no more than maxConcurrent requests execute at the same time, and  *)
(* runningCount equals the size of the running set and is never negative.  *)
(***************************************************************************)
RqExecuting == {id \in rqInFlight : ~rqItems[id].cancelled}

C36_ConcurrencyBound ==
    /\ Cardinality(RqExecuting) <= RqMaxConcurrent
    /\ rqRunningCount = Cardinality(rqRunning)
    /\ rqRunningCount >= 0

(***************************************************************************)
(* C37: the promise of every request passed to enqueue is eventually       *)
(* resolved or rejected.                                                   *)
(***************************************************************************)
C37_EveryPromiseSettles ==
    \A id \in 1..RqMaxRequests :
        (id \in DOMAIN rqItems)
            ~> (id \in DOMAIN rqItems /\ rqItems[id].promise # "pending")

(***************************************************************************)
(* C38: when an item is started, no item left in the queues that is not    *)
(* cancelled has a higher priority, and none of the same priority was      *)
(* enqueued before it.                                                     *)
(***************************************************************************)
RqWaiting(queues, items) ==
    {id \in UNION {Range(queues[p]) : p \in DOMAIN queues} : ~items[id].cancelled}

C38_PriorityOrder ==
    [][\A id \in Range(rqStarted') \ Range(rqStarted) :
          \A other \in RqWaiting(rqQueues', rqItems') :
              \/ rqItems'[other].priority < rqItems'[id].priority
              \/ /\ rqItems'[other].priority = rqItems'[id].priority
                 /\ other > id]_vars

\* a request enqueued later was started before an earlier one of lower
\* priority, and two of the same priority in their order
C38_Witness ==
    /\ Len(rqStarted) = RqMaxRequests
    /\ \E i, j \in DOMAIN rqStarted :
         i < j /\ rqStarted[i] > rqStarted[j]
    /\ \E i, j \in DOMAIN rqStarted :
         /\ i < j /\ rqStarted[i] < rqStarted[j]
         /\ rqItems[rqStarted[i]].priority = rqItems[rqStarted[j]].priority

(***************************************************************************)
(* C39: the step in which the failure count of an operation type reaches   *)
(* offlineThreshold leaves the service in offline mode, and a service in   *)
(* offline mode eventually is online again once the operations passed to   *)
(* executeWithRetry succeed, whatever fallback strategies are registered.  *)
(***************************************************************************)
EbCount(counts, operationType) ==
    IF operationType \in DOMAIN counts THEN counts[operationType] ELSE 0

C39_OfflineEntryAndRecovery ==
    /\ [][\A operationType \in EbOperationTypes :
             (/\ EbCount(errorCounts', operationType) >= offlineThreshold
              /\ EbCount(errorCounts', operationType) > EbCount(errorCounts, operationType))
                => offlineMode']_vars
    /\ (offlineMode ~> ~offlineMode)

(***************************************************************************)
(* C40: func is invoked only for the last call of a burst, once, wait      *)
(* ticks after that call and with its arguments, and the promise returned  *)
(* to every call is eventually resolved.                                   *)
(***************************************************************************)
\* a later call came less than wait ticks after this one
DbSuperseded(call) ==
    /\ call + 1 \in DOMAIN dbPromises
    /\ dbPromises[call + 1].at < dbPromises[call].at + DbWait

C40_BurstInvokedOnceAllResolved ==
    /\ [](\A i \in DOMAIN dbInvoked :
            /\ ~DbSuperseded(dbInvoked[i].call)
            /\ dbInvoked[i].at = dbPromises[dbInvoked[i].call].at + DbWait
            /\ dbInvoked[i].args = dbPromises[dbInvoked[i].call].args
            /\ \A j \in DOMAIN dbInvoked : dbInvoked[j].call = dbInvoked[i].call => i = j)
    /\ \A call \in 1..DbMaxCalls :
          (call \in DOMAIN dbPromises)
              ~> (call \in DOMAIN dbPromises /\ dbPromises[call].state = "resolved")

====
